---- MODULE Spec2Model ----
(***************************************************************************)
(* Model of the score-prediction pipeline of torobot:                      *)
(*   helpers/score_helper.py  (models_store, load_and_prep_historical_data,*)
(*                             train_all_models, prepare_live_features_    *)
(*                             from_stats, predict_scores_with_model)      *)
(*   cogs/ml_cog.py           (MachineLearningCog: perform_initial_model_  *)
(*                             setup, machine_predict and its per-game     *)
(*                             process_single_game_sync_wrapper)           *)
(* The event loop runs the coroutines of the cog; run_in_executor hands    *)
(* the helper functions to worker threads, so every statement of a helper  *)
(* that touches models_store is a step of its own.                         *)
(* Spec is the cog with its setup and its /machine requests; SpecSetup is  *)
(* the setup alone, scheduled fairly; SpecLive calls the prediction-side   *)
(* helpers directly, on values; SpecRows follows the rows of the           *)
(* historical data through the load; SpecOdds is get_nba_odds_data with    *)
(* its cache, its credit count and the daily reset.                        *)
(***************************************************************************)
EXTENDS Integers, Sequences, FiniteSets, TLC

\* ------------------------------------------------------------------ bounds
MaxTriggers == 2   \* invocations of perform_initial_model_setup in flight at once
MaxRequests == 1   \* /machine interactions in flight at once
MaxRuns == 2       \* training runs counted by the run counter

Triggers == 1..MaxTriggers
Requests == 1..MaxRequests

\* ------------------------------------------------------- values and names
None == [none |-> TRUE]     \* Python None where an object is expected
NoName == "None"            \* Python None where a name (str) is expected

\* Two of the 54 columns of FEATURE_COLS, in source order.
FEATURE_COLS == << "Home_PTS_Roll10_PreGame", "Diff_PTS_Roll10_PreGame" >>
TARGET_HOME_SCORE == "Home_Team_Score"
TARGET_AWAY_SCORE == "Away_Team_Score"

Range(s) == { s[i] : i \in DOMAIN s }
\* Variant: the comprehension runs over the file's columns, which come in
\* another order than the nominal list
KeepInFileOrder(names, cols) ==
    LET kept == SelectSeq(names, LAMBDA c : c \in cols)
    IN  [i \in 1..Len(kept) |-> kept[Len(kept) + 1 - i]]

\* [col for col in names if col in cols], a list comprehension over a list
Keep(names, cols) == SelectSeq(names, LAMBDA c : c \in cols)

\* A Python dict as the sequence of its items in insertion order
EmptyDict == << >>
Keys(d) == { d[i].k : i \in DOMAIN d }
\* d.get(k)
DictGet(d, k) ==
    IF k \in Keys(d) THEN d[CHOOSE i \in DOMAIN d : d[i].k = k].v ELSE None
\* d[k] = v: a present key keeps its position, a new key goes last
DictSet(d, k, v) ==
    IF k \in Keys(d)
    THEN [i \in DOMAIN d |-> IF d[i].k = k THEN [k |-> k, v |-> v] ELSE d[i]]
    ELSE Append(d, [k |-> k, v |-> v])

\* models_to_train_config: its insertion order is the iteration order
ModelsToTrainConfig(xgb) == IF xgb THEN << "RF", "GB", "XGB" >> ELSE << "RF", "GB" >>

\* Holdout MAEs (home, away) a family may score, in tenths of a point: their
\* averages are 7.9 and 8.5, and the home MAEs order the other way round.
MaeOutcomes ==
    { [home_mae |-> 75, away_mae |-> 83], [home_mae |-> 70, away_mae |-> 100] }
\* float('inf'): above every MAE of the model
Infinity == 1000000

VARIABLES
    XGB_AVAILABLE,          \* score_helper.XGB_AVAILABLE, fixed at import
    NBA_API_AVAILABLE,      \* score_helper.NBA_API_AVAILABLE, fixed at import
    models_store,           \* score_helper.models_store
    runs,                   \* the number of training runs started so far
    gen,                    \* per field of models_store: the run that wrote it last
    lock,                   \* the holders of cog._initial_setup_lock ({} when free)
    initial_setup_complete, \* cog.initial_setup_complete
    pcS,                    \* per trigger: position in perform_initial_model_setup
    loc,                    \* per trigger: locals of the helper call in its executor
    pcM,                    \* per request: position in machine_predict
    req,                    \* per request: locals of machine_predict and its wrapper
    live,                   \* the last direct call of a prediction-side helper
    ODDS_API_KEY,           \* ml_cog.ODDS_API_KEY, fixed at import
    ODDS_API_CREDITS_USED_TODAY,
    LAST_CREDIT_RESET_DAY,
    ODDS_CACHE,             \* the entry of "nba_odds_all_games", None without one
    clock,                  \* time.monotonic() in seconds and the UTC day
    odds_call,              \* per command: position in get_nba_odds_data and its locals
    odds_ret,               \* the last return of get_nba_odds_data
    n_calls                 \* the calls of get_nba_odds_data made so far

odds == << ODDS_API_KEY, ODDS_API_CREDITS_USED_TODAY, LAST_CREDIT_RESET_DAY, ODDS_CACHE,
           clock, odds_call, odds_ret, n_calls >>
vars == << XGB_AVAILABLE, NBA_API_AVAILABLE, models_store, runs, gen, lock,
           initial_setup_complete, pcS, loc, pcM, req, live, odds >>

env == << XGB_AVAILABLE, NBA_API_AVAILABLE >>
cog == << lock, initial_setup_complete >>
machine == << pcM, req >>

Fields == { "imputer", "scaler", "trained_models", "evaluation", "feature_names",
            "nba_teams_lu", "best_model_name", "models_ready" }

\* models_store as the module defines it
InitialStore ==
    [ imputer |-> None, scaler |-> None, trained_models |-> EmptyDict,
      evaluation |-> EmptyDict, feature_names |-> FEATURE_COLS,
      nba_teams_lu |-> FALSE, best_model_name |-> NoName, models_ready |-> FALSE ]

\* models_store[f] = v, and the note of the run that wrote the fields fs
Put(store, f, v) == [store EXCEPT ![f] = v]
Wrote(g, fs, run) == [f \in Fields |-> IF f \in fs THEN run ELSE g[f]]

\* Locals of a helper call; before is models_store as the call of
\* load_and_prep_historical_data found it.
NoLocals ==
    [ run |-> 0, before |-> None, df |-> None, X |-> None, k |-> 0,
      overall_success |-> TRUE, raised |-> {}, ret |-> None ]

\* Locals of one /machine interaction: the wrapper's feature row, feature
\* vector and result for the game at hand, the answer sent, and what the
\* interaction read of models_store so far (the runs that wrote the fields it
\* read, and whether one of them was still in progress at the read).
\* No helper has been called directly
NoCall == [call |-> "none"]

NoRequest ==
    [ names |-> None, f_vec |-> None, result |-> None, answer |-> NoName,
      obs |-> [runs |-> {}, torn |-> FALSE] ]

\* Bounds of the odds side
MaxCommands == 2   \* /machine commands inside get_nba_odds_data at a time
MaxCalls == 3      \* calls of get_nba_odds_data
MaxTicks == 2      \* steps of 300 seconds the clock takes
MaxDays == 1       \* changes of the UTC day
Commands == 1..MaxCommands

MAX_ODDS_API_CREDITS_PER_DAY == 320
CACHE_DURATION_SECONDS == 60 * 10

NoReturn == [by |-> 0]
IdleCall == [pc |-> "idle"]

\* Lines 26-31 of the cog at import, with nobody in get_nba_odds_data
OddsAtImport ==
    /\ ODDS_API_KEY = "key"
    /\ ODDS_API_CREDITS_USED_TODAY = 0
    /\ LAST_CREDIT_RESET_DAY = 1
    /\ ODDS_CACHE = None
    /\ clock = [monotonic |-> 0, day |-> 1]
    /\ odds_call = [c \in Commands |-> IdleCall]
    /\ odds_ret = NoReturn
    /\ n_calls = 0

Init ==
    /\ OddsAtImport
    /\ XGB_AVAILABLE \in BOOLEAN
    /\ NBA_API_AVAILABLE \in BOOLEAN
    /\ models_store = InitialStore
    /\ runs = 0
    /\ gen = [f \in Fields |-> 0]
    /\ lock = {}
    /\ initial_setup_complete = FALSE
    /\ pcS = [t \in Triggers |-> IF t = 1 THEN "lock" ELSE "idle"]
    /\ loc = [t \in Triggers |-> NoLocals]
    /\ pcM = [r \in Requests |-> "idle"]
    /\ req = [r \in Requests |-> NoRequest]
    /\ live = NoCall

\* ------------------------------------------- perform_initial_model_setup
\* An invocation of perform_initial_model_setup (the one __init__ creates is
\* already waiting in Init; a coroutine that returned leaves its slot idle).
Trigger(t) ==
    /\ pcS[t] = "idle"
    /\ pcS' = [pcS EXCEPT ![t] = "lock"]
    /\ UNCHANGED << env, odds, live, models_store, runs, gen, cog, loc, machine >>

\* Variant: a lock that excludes nobody
LockNeverHeld(l) == TRUE

\* asyncio.Lock: acquire succeeds when nobody holds it
LockFree(l) == l = {}

\* Variant: the completion check of line 63 is missing
SetupNeverSkips(complete) == FALSE

\* if self.initial_setup_complete: return
SetupSkips(complete) == complete

\* Lines 62-70 run on the event loop without an await once the lock is held:
\* the completion check, the CSV existence check, then the first executor
\* call, with which a training run starts.
SetupEnter(t) ==
    /\ pcS[t] = "lock"
    /\ LockFree(lock)
    /\ \E csv_exists \in BOOLEAN :
         IF SetupSkips(initial_setup_complete)
         THEN /\ pcS' = [pcS EXCEPT ![t] = "idle"]
              /\ UNCHANGED << lock, initial_setup_complete, runs, loc >>
         ELSE IF ~csv_exists
         THEN /\ pcS' = [pcS EXCEPT ![t] = "idle"]
              /\ initial_setup_complete' = TRUE
              /\ UNCHANGED << lock, runs, loc >>
         ELSE /\ runs < MaxRuns
              /\ pcS' = [pcS EXCEPT ![t] =
                           IF NBA_API_AVAILABLE THEN "init_teams" ELSE "load_read"]
              /\ lock' = lock \cup {t}
              /\ runs' = runs + 1
              /\ loc' = [loc EXCEPT ![t].run = runs + 1]
              /\ UNCHANGED initial_setup_complete
    /\ UNCHANGED << env, odds, live, models_store, gen, machine >>

\* initialize_nba_teams: the lookup is filled, or left empty when the fetch fails
InitializeNbaTeams(t) ==
    /\ pcS[t] = "init_teams"
    /\ \E fetched \in BOOLEAN :
         models_store' = Put(models_store, "nba_teams_lu", fetched)
    /\ gen' = Wrote(gen, {"nba_teams_lu"}, loc[t].run)
    /\ pcS' = [pcS EXCEPT ![t] = "load_read"]
    /\ UNCHANGED << env, odds, live, runs, cog, loc, machine >>

\* ---------------------------------------- load_and_prep_historical_data
\* What pd.read_csv may find: whether the file can be read, its columns,
\* whether any row has both targets, and the feature columns that are
\* entirely NaN after coercion.
CsvInputs ==
    [ readable : BOOLEAN,
      columns  : SUBSET (Range(FEATURE_COLS) \cup {TARGET_HOME_SCORE, TARGET_AWAY_SCORE}),
      rows     : BOOLEAN,
      all_nan  : SUBSET Range(FEATURE_COLS) ]

\* return None, None, None, with the locals l of the call at that point
LoadFails(t, l) ==
    /\ pcS' = [pcS EXCEPT ![t] = "loaded"]
    /\ loc' = [loc EXCEPT ![t] = [l EXCEPT !.X = None]]

\* Variant: the check of line 106 never finds the frame empty
NeverEmpty(df) == FALSE

\* df_ml.empty after the rows without a target were dropped (line 106)
NoRowsLeft(df) == ~df.rows

\* Lines 66-95: read the file, check the targets, keep the usable features
\* and store them as models_store['feature_names'].
LoadRead(t) ==
    /\ pcS[t] = "load_read"
    /\ \E csv \in CsvInputs :
         LET missing_essential_targets ==
                 {TARGET_HOME_SCORE, TARGET_AWAY_SCORE} \ csv.columns
             usable_feature_names == Keep(FEATURE_COLS, csv.columns)
             entered == [loc[t] EXCEPT !.before = models_store]
         IN  IF ~csv.readable
             THEN /\ LoadFails(t, entered)
                  /\ UNCHANGED << models_store, gen >>
             ELSE IF missing_essential_targets # {} \/ usable_feature_names = << >>
             THEN /\ LoadFails(t, [entered EXCEPT !.df =
                                     [ missing |-> missing_essential_targets,
                                       usable |-> usable_feature_names,
                                       rows |-> TRUE, all_nan |-> {} ]])
                  /\ UNCHANGED << models_store, gen >>
             ELSE /\ models_store' = Put(models_store, "feature_names", usable_feature_names)
                  /\ gen' = Wrote(gen, {"feature_names"}, loc[t].run)
                  /\ pcS' = [pcS EXCEPT ![t] = "load_dropna"]
                  /\ loc' = [loc EXCEPT ![t] = [entered EXCEPT !.df =
                               [ missing |-> {},
                                 usable |-> usable_feature_names,
                                 rows |-> csv.rows,
                                 all_nan |-> csv.all_nan \cap Range(usable_feature_names) ]]]
    /\ UNCHANGED << env, odds, live, runs, cog, machine >>

\* Lines 97-108: coerce, drop the rows without a target, fail when none is left.
LoadDropna(t) ==
    /\ pcS[t] = "load_dropna"
    /\ IF NoRowsLeft(loc[t].df)
       THEN LoadFails(t, loc[t])
       ELSE /\ pcS' = [pcS EXCEPT ![t] = "load_allnan"]
            /\ UNCHANGED loc
    /\ UNCHANGED << env, odds, live, models_store, runs, gen, cog, machine >>

\* Lines 110-125: X takes the stored feature names; all-NaN columns are
\* dropped from X and from models_store['feature_names'].
LoadAllNan(t) ==
    /\ pcS[t] = "load_allnan"
    /\ LET X0 == models_store.feature_names
           cols_all_nan == Keep(X0, loc[t].df.all_nan)
           X1 == Keep(X0, Range(X0) \ loc[t].df.all_nan)
       IN  IF cols_all_nan # << >>
           THEN /\ models_store' = Put(models_store, "feature_names", X1)
                /\ gen' = Wrote(gen, {"feature_names"}, loc[t].run)
                /\ IF X1 = << >>
                   THEN LoadFails(t, loc[t])
                   ELSE /\ pcS' = [pcS EXCEPT ![t] = "load_impute"]
                        /\ loc' = [loc EXCEPT ![t].X = [columns |-> X1]]
           ELSE /\ pcS' = [pcS EXCEPT ![t] = "load_impute"]
                /\ loc' = [loc EXCEPT ![t].X = [columns |-> X0]]
                /\ UNCHANGED << models_store, gen >>
    /\ UNCHANGED << env, odds, live, runs, cog, machine >>

\* Lines 127-131: the imputer is fitted on X and stored.
LoadImpute(t) ==
    /\ pcS[t] = "load_impute"
    /\ models_store' = Put(models_store, "imputer", [columns |-> loc[t].X.columns])
    /\ gen' = Wrote(gen, {"imputer"}, loc[t].run)
    /\ pcS' = [pcS EXCEPT ![t] = "load_scale"]
    /\ UNCHANGED << env, odds, live, runs, cog, loc, machine >>

\* Lines 133-140: the scaler is fitted on the imputed X and stored; return X.
LoadScale(t) ==
    /\ pcS[t] = "load_scale"
    /\ models_store' = Put(models_store, "scaler", [columns |-> loc[t].X.columns])
    /\ gen' = Wrote(gen, {"scaler"}, loc[t].run)
    /\ pcS' = [pcS EXCEPT ![t] = "loaded"]
    /\ UNCHANGED << env, odds, live, runs, cog, loc, machine >>

\* Lines 71-72 and 76-80 of the cog: train when the load returned data,
\* else clear the flag, mark the setup complete and release the lock.
SetupAfterLoad(t) ==
    /\ pcS[t] = "loaded"
    /\ IF loc[t].X # None
       THEN /\ pcS' = [pcS EXCEPT ![t] = "train_split"]
            /\ loc' = [loc EXCEPT ![t].before = None, ![t].df = None]
            /\ UNCHANGED << models_store, gen, cog >>
       ELSE /\ models_store' = Put(models_store, "models_ready", FALSE)
            /\ gen' = Wrote(gen, {"models_ready"}, loc[t].run)
            /\ initial_setup_complete' = TRUE
            /\ lock' = lock \ {t}
            /\ pcS' = [pcS EXCEPT ![t] = "idle"]
            /\ loc' = [loc EXCEPT ![t] = NoLocals]
    /\ UNCHANGED << env, odds, live, runs, machine >>

\* ------------------------------------------------------ train_all_models
\* What fitting the two regressors of a family may do (lines 172-181)
FitOutcomes == { "ok", "home_fit_raises", "away_fit_raises" }

\* A regressor fitted on the columns of X_train
Fitted(X) == [columns |-> X.columns]

\* Variant: the except clause leaves a pair stored at line 183 in place
OnFamilyErrorKeepsPair(store, model_name) ==
    [store EXCEPT !.trained_models =
                      IF model_name \in Keys(@) THEN @ ELSE DictSet(@, model_name, None),
                  !.evaluation = DictSet(@, model_name, None)]

\* Line 193, the except clause of a family: both maps get None under its name
OnFamilyError(store, model_name) ==
    [store EXCEPT !.trained_models = DictSet(@, model_name, None),
                  !.evaluation = DictSet(@, model_name, None)]

\* Lines 143-151 and 165-166: a failing split returns False and leaves the
\* store alone; else overall_success = True and trained_models.clear().
TrainSplit(t) ==
    /\ pcS[t] = "train_split"
    /\ \E split_ok \in BOOLEAN :
         IF ~split_ok
         THEN /\ pcS' = [pcS EXCEPT ![t] = "trained"]
              /\ loc' = [loc EXCEPT ![t].ret = [value |-> FALSE]]
              /\ UNCHANGED << models_store, gen >>
         ELSE /\ models_store' = Put(models_store, "trained_models", EmptyDict)
              /\ gen' = Wrote(gen, {"trained_models"}, loc[t].run)
              /\ pcS' = [pcS EXCEPT ![t] = "train_clear"]
              /\ loc' = [loc EXCEPT ![t].overall_success = TRUE]
    /\ UNCHANGED << env, odds, live, runs, cog, machine >>

\* Line 167: evaluation.clear(); the loop starts at the first family.
TrainClearEval(t) ==
    /\ pcS[t] = "train_clear"
    /\ models_store' = Put(models_store, "evaluation", EmptyDict)
    /\ gen' = Wrote(gen, {"evaluation"}, loc[t].run)
    /\ pcS' = [pcS EXCEPT ![t] = "train_fit"]
    /\ loc' = [loc EXCEPT ![t].k = 1]
    /\ UNCHANGED << env, odds, live, runs, cog, machine >>

\* The loop's next family, or the selection when the config is exhausted
AfterFamily(t, k) ==
    IF k < Len(ModelsToTrainConfig(XGB_AVAILABLE)) THEN "train_fit" ELSE "train_select"

\* Variant: the except clause ends the loop and the call
AfterErrorAborts(t, k) == "trained"

\* Where the except clause of family k leaves the loop: at its next family
AfterError(t, k) == AfterFamily(t, k)

\* Lines 169-183: fit the home and the away regressor of family k and store
\* the pair; a raise goes to the except clause and on to the next family.
TrainFit(t) ==
    /\ pcS[t] = "train_fit"
    /\ LET model_name == ModelsToTrainConfig(XGB_AVAILABLE)[loc[t].k]
       IN  \E outcome \in FitOutcomes :
             IF outcome = "ok"
             THEN /\ models_store' =
                        Put(models_store, "trained_models",
                            DictSet(models_store.trained_models, model_name,
                                    [home |-> Fitted(loc[t].X), away |-> Fitted(loc[t].X)]))
                  /\ gen' = Wrote(gen, {"trained_models"}, loc[t].run)
                  /\ pcS' = [pcS EXCEPT ![t] = "train_eval"]
                  /\ UNCHANGED loc
             ELSE /\ models_store' = OnFamilyError(models_store, model_name)
                  /\ gen' = Wrote(gen, {"trained_models", "evaluation"}, loc[t].run)
                  /\ pcS' = [pcS EXCEPT ![t] = AfterError(t, loc[t].k)]
                  /\ loc' = [loc EXCEPT ![t].overall_success = FALSE,
                                        ![t].raised = @ \cup {model_name},
                                        ![t].k = @ + 1]
    /\ UNCHANGED << env, odds, live, runs, cog, machine >>

\* avg_mae = (home_mae + away_mae) / 2, exact on the tenths of MaeOutcomes
AverageMae(home_mae, away_mae) == (home_mae + away_mae) \div 2

\* Lines 184-190: evaluate family k on the holdout and store its MAEs; a
\* raise goes to the except clause. Then the next family.
TrainEval(t) ==
    /\ pcS[t] = "train_eval"
    /\ LET model_name == ModelsToTrainConfig(XGB_AVAILABLE)[loc[t].k]
       IN  \/ \E mae \in MaeOutcomes :
                /\ models_store' =
                      Put(models_store, "evaluation",
                          DictSet(models_store.evaluation, model_name,
                                  [ home_mae |-> mae.home_mae, away_mae |-> mae.away_mae,
                                    average_mae |-> AverageMae(mae.home_mae, mae.away_mae) ]))
                /\ gen' = Wrote(gen, {"evaluation"}, loc[t].run)
                /\ loc' = [loc EXCEPT ![t].k = @ + 1]
                /\ pcS' = [pcS EXCEPT ![t] = AfterFamily(t, loc[t].k)]
           \/ /\ models_store' = OnFamilyError(models_store, model_name)
              /\ gen' = Wrote(gen, {"trained_models", "evaluation"}, loc[t].run)
              /\ loc' = [loc EXCEPT ![t].overall_success = FALSE,
                                    ![t].raised = @ \cup {model_name},
                                    ![t].k = @ + 1]
              /\ pcS' = [pcS EXCEPT ![t] = AfterError(t, loc[t].k)]
    /\ UNCHANGED << env, odds, live, runs, cog, machine >>

\* Lines 196-200: scan evaluation.items() in insertion order; a family is
\* taken only when its average MAE is strictly below the minimum so far.
RECURSIVE ScanBest(_, _, _, _)
ScanBest(items, i, best_model_name_found, min_mae) ==
    IF i > Len(items) THEN best_model_name_found
    ELSE LET eval_results == items[i].v
         IN  IF eval_results # None /\ eval_results.average_mae < min_mae
             THEN ScanBest(items, i + 1, items[i].k, eval_results.average_mae)
             ELSE ScanBest(items, i + 1, best_model_name_found, min_mae)

\* Variant: the scan compares with <=, so the last of a tie wins
RECURSIVE ScanBestLastWins(_, _, _, _)
ScanBestLastWins(items, i, best_model_name_found, min_mae) ==
    IF i > Len(items) THEN best_model_name_found
    ELSE LET eval_results == items[i].v
         IN  IF eval_results # None /\ eval_results.average_mae <= min_mae
             THEN ScanBestLastWins(items, i + 1, items[i].k, eval_results.average_mae)
             ELSE ScanBestLastWins(items, i + 1, best_model_name_found, min_mae)
BestModelLastWins(evaluation) == ScanBestLastWins(evaluation, 1, NoName, Infinity)

BestModel(evaluation) == ScanBest(evaluation, 1, NoName, Infinity)

\* Lines 196-206: store the best family's name, or None and a failed run.
TrainSelect(t) ==
    /\ pcS[t] = "train_select"
    /\ LET best_model_name_found == BestModel(models_store.evaluation)
       IN  /\ models_store' = Put(models_store, "best_model_name", best_model_name_found)
           /\ loc' = [loc EXCEPT ![t].overall_success =
                                   IF best_model_name_found = NoName THEN FALSE ELSE @]
    /\ gen' = Wrote(gen, {"best_model_name"}, loc[t].run)
    /\ pcS' = [pcS EXCEPT ![t] = "train_ready"]
    /\ UNCHANGED << env, odds, live, runs, cog, machine >>

\* Variant: the flag looks at the preprocessing artifacts only
ReadyFlagArtifactsOnly(overall_success, store) ==
    store.imputer # None /\ store.scaler # None

\* Lines 208-210, the value given to models_store['models_ready']
ReadyFlag(overall_success, store) ==
    /\ overall_success
    /\ store.best_model_name # NoName
    /\ DictGet(store.trained_models, store.best_model_name) # None
    /\ store.imputer # None
    /\ store.scaler # None

\* Lines 208-211: set the flag and return it.
TrainReady(t) ==
    /\ pcS[t] = "train_ready"
    /\ LET ready == ReadyFlag(loc[t].overall_success, models_store)
       IN  /\ models_store' = Put(models_store, "models_ready", ready)
           /\ loc' = [loc EXCEPT ![t].ret = [value |-> ready]]
    /\ gen' = Wrote(gen, {"models_ready"}, loc[t].run)
    /\ pcS' = [pcS EXCEPT ![t] = "trained"]
    /\ UNCHANGED << env, odds, live, runs, cog, machine >>

\* Variant: the setup returns after the training without setting the flag
SetupAfterTrainLeavesFlag(t) ==
    /\ pcS[t] = "trained"
    /\ lock' = lock \ {t}
    /\ pcS' = [pcS EXCEPT ![t] = "idle"]
    /\ loc' = [loc EXCEPT ![t] = NoLocals]
    /\ UNCHANGED << env, odds, live, models_store, runs, gen, machine, initial_setup_complete >>

\* Lines 73-80 of the cog: the setup is complete and the lock is released.
SetupAfterTrain(t) ==
    /\ pcS[t] = "trained"
    /\ initial_setup_complete' = TRUE
    /\ lock' = lock \ {t}
    /\ pcS' = [pcS EXCEPT ![t] = "idle"]
    /\ loc' = [loc EXCEPT ![t] = NoLocals]
    /\ UNCHANGED << env, odds, live, models_store, runs, gen, machine >>

\* ------------------------------------------------ prediction-side helpers
NonePair == [numeric |-> FALSE]     \* return None, None
\* return round(float(pred_home)), round(float(pred_away)): two integers
NumericPair == [numeric |-> TRUE]

\* DataFrame.empty: no column (the row is always there)
IsEmpty(df) == df.columns = << >>

\* estimator.transform / estimator.predict raise on a frame whose columns
\* are not the ones the estimator was fitted on
Raises(estimator, df) == estimator.columns # df.columns

\* Variant: no check that the model is there; a missing model predicts
PredictWithoutModelCheck(store, feature_vector_df, model_name_key) ==
    IF feature_vector_df = None \/ IsEmpty(feature_vector_df) THEN NonePair
    ELSE NumericPair

\* Variant: an exception of predict is not caught as (None, None)
PredictWithoutShapeCheck(store, feature_vector_df, model_name_key) ==
    IF feature_vector_df = None \/ IsEmpty(feature_vector_df) THEN NonePair
    ELSE IF DictGet(store.trained_models, model_name_key) = None THEN NonePair
    ELSE NumericPair

\* predict_scores_with_model, lines 380-404
PredictScoresWithModel(store, feature_vector_df, model_name_key) ==
    IF feature_vector_df = None \/ IsEmpty(feature_vector_df) THEN NonePair
    ELSE IF DictGet(store.trained_models, model_name_key) = None THEN NonePair
    ELSE LET model_pair == DictGet(store.trained_models, model_name_key)
         IN  IF model_pair.home = None \/ model_pair.away = None THEN NonePair
             ELSE IF \/ Raises(model_pair.home, feature_vector_df)
                     \/ Raises(model_pair.away, feature_vector_df)
                  THEN NonePair
                  ELSE NumericPair

\* prepare_live_features_from_stats, lines 365-378, on the row built for
\* the feature names read at line 327
TransformLiveFeatures(store, feature_vector_df) ==
    IF store.imputer = None \/ store.scaler = None THEN None
    ELSE IF \/ Raises(store.imputer, feature_vector_df)
            \/ Raises(store.scaler, feature_vector_df)
         THEN None
         ELSE feature_vector_df

\* ------------------------------------------------------- machine_predict
\* A training run is in progress from its first helper call to the return
\* of train_all_models (or of a failed load).
Running ==
    { "init_teams", "load_read", "load_dropna", "load_allnan", "load_impute",
      "load_scale", "train_split", "train_clear", "train_fit", "train_eval",
      "train_select", "train_ready" }
Training(t) ==
    \/ pcS[t] \in Running
    \/ pcS[t] = "loaded" /\ loc[t].X # None
InProgress(run) == \E t \in Triggers : loc[t].run = run /\ Training(t)

\* What a request notes when it reads the fields fs of models_store
Observe(r, fs) ==
    [ runs |-> req[r].obs.runs \cup { gen[f] : f \in fs },
      torn |-> req[r].obs.torn \/ \E f \in fs : InProgress(gen[f]) ]

\* Line 132: the interaction arrives and is deferred.
MachineArrive(r) ==
    /\ pcM[r] = "idle"
    /\ pcM' = [pcM EXCEPT ![r] = "lock"]
    /\ req' = [req EXCEPT ![r] = NoRequest]
    /\ UNCHANGED << env, odds, live, models_store, runs, gen, cog, pcS, loc >>

Answer(r, text) ==
    /\ pcM' = [pcM EXCEPT ![r] = "done"]
    /\ req' = [req EXCEPT ![r].answer = text, ![r].obs = Observe(r, {"models_ready"})]

\* Lines 133-139: pass the setup lock (acquired and released at once), then
\* the three checks; no await lies between them.
MachineCheck(r) ==
    /\ pcM[r] = "lock"
    /\ LockFree(lock)
    /\ IF ~initial_setup_complete
       THEN /\ pcM' = [pcM EXCEPT ![r] = "done"]
            /\ req' = [req EXCEPT ![r].answer = "Initial setup pending."]
       ELSE IF ~models_store.models_ready
       THEN Answer(r, "ML models not ready.")
       ELSE IF ~NBA_API_AVAILABLE
       THEN Answer(r, "NBA_API not available.")
       ELSE /\ pcM' = [pcM EXCEPT ![r] = "odds"]
            /\ req' = [req EXCEPT ![r].obs = Observe(r, {"models_ready"})]
    /\ UNCHANGED << env, odds, live, models_store, runs, gen, cog, pcS, loc >>

\* Lines 141-148: get_nba_odds_data answers the credit limit, nothing, or a
\* non-empty list of games.
MachineOdds(r) ==
    /\ pcM[r] = "odds"
    /\ \/ /\ pcM' = [pcM EXCEPT ![r] = "done"]
          /\ \E text \in {"Odds API credit limit reached.", "Could not retrieve game odds."} :
               req' = [req EXCEPT ![r].answer = text]
       \/ /\ pcM' = [pcM EXCEPT ![r] = "collect"]
          /\ UNCHANGED req
    /\ UNCHANGED << env, odds, live, models_store, runs, gen, cog, pcS, loc >>

\* The wrapper returns (game, result) to the loop of machine_predict.
WrapperReturns(r, result) ==
    /\ pcM' = [pcM EXCEPT ![r] = "render"]
    /\ req' = [req EXCEPT ![r].result = result, ![r].names = None, ![r].f_vec = None]

CollectErrors ==
    { "Team ID not found", "Failed to get sufficient game logs",
      "Team stats consist entirely of NaNs after calculation." }

\* Lines 158-183 of the wrapper: team ids from nba_teams_lu, the two game
\* logs and their rolling stats; each may end the game with an error text.
WrapperCollect(r) ==
    /\ pcM[r] = "collect"
    /\ \/ \E text \in CollectErrors :
            /\ ~models_store.nba_teams_lu => text = "Team ID not found"
            /\ WrapperReturns(r, [error |-> text])
       \/ /\ models_store.nba_teams_lu
          /\ pcM' = [pcM EXCEPT ![r] = "features"]
          /\ UNCHANGED req
    /\ UNCHANGED << env, odds, live, models_store, runs, gen, cog, pcS, loc >>

\* prepare_live_features_from_stats, lines 321-363: one row whose columns
\* are models_store['feature_names'] as read at line 327.
WrapperFeatures(r) ==
    /\ pcM[r] = "features"
    /\ pcM' = [pcM EXCEPT ![r] = "transform"]
    /\ req' = [req EXCEPT ![r].names = [columns |-> models_store.feature_names],
                          ![r].obs = Observe(r, {"feature_names"})]
    /\ UNCHANGED << env, odds, live, models_store, runs, gen, cog, pcS, loc >>

\* prepare_live_features_from_stats, lines 365-378, and lines 186-189 of
\* the wrapper: impute and scale the row, or end the game with an error
\* (no vector, or a vector in which a NaN is left).
WrapperTransform(r) ==
    /\ pcM[r] = "transform"
    /\ LET _f_vec == TransformLiveFeatures(models_store, req[r].names)
       IN  IF _f_vec = None
           THEN /\ pcM' = [pcM EXCEPT ![r] = "render"]
                /\ req' = [req EXCEPT
                             ![r].result = [error |-> "Helper failed to prepare features (None)"],
                             ![r].names = None,
                             ![r].obs = Observe(r, {"imputer", "scaler"})]
           ELSE \E has_nan \in BOOLEAN :
                  IF has_nan
                  THEN /\ pcM' = [pcM EXCEPT ![r] = "render"]
                       /\ req' = [req EXCEPT
                                    ![r].result = [error |-> "Prepared features contain NaNs."],
                                    ![r].names = None,
                                    ![r].obs = Observe(r, {"imputer", "scaler"})]
                  ELSE /\ pcM' = [pcM EXCEPT ![r] = "predict"]
                       /\ req' = [req EXCEPT ![r].f_vec = _f_vec, ![r].names = None,
                                             ![r].obs = Observe(r, {"imputer", "scaler"})]
    /\ UNCHANGED << env, odds, live, models_store, runs, gen, cog, pcS, loc >>

\* Line 195: predict with models_store['best_model_name'].
WrapperPredict(r) ==
    /\ pcM[r] = "predict"
    /\ pcM' = [pcM EXCEPT ![r] = "render"]
    /\ req' = [req EXCEPT
                 ![r].result = PredictScoresWithModel(models_store, req[r].f_vec,
                                                      models_store.best_model_name),
                 ![r].f_vec = None,
                 ![r].obs = Observe(r, {"best_model_name", "trained_models"})]
    /\ UNCHANGED << env, odds, live, models_store, runs, gen, cog, pcS, loc >>

\* Lines 149-151 and 198-216: render the game's result, then go to the next
\* game of the list, or to the embed after the last one.
MachineRender(r) ==
    /\ pcM[r] = "render"
    /\ \E more_games \in BOOLEAN :
         pcM' = [pcM EXCEPT ![r] = IF more_games THEN "collect" ELSE "send"]
    /\ req' = [req EXCEPT ![r].result = None,
                          ![r].obs = IF "error" \in DOMAIN req[r].result THEN @
                                     ELSE Observe(r, {"best_model_name"})]
    /\ UNCHANGED << env, odds, live, models_store, runs, gen, cog, pcS, loc >>

\* Lines 218-231: the embed with the rendered lines is sent.
MachineSend(r) ==
    /\ pcM[r] = "send"
    /\ pcM' = [pcM EXCEPT ![r] = "done"]
    /\ req' = [req EXCEPT ![r].answer = "embed",
                          ![r].obs = Observe(r, {"best_model_name"})]
    /\ UNCHANGED << env, odds, live, models_store, runs, gen, cog, pcS, loc >>

\* The interaction is over; the next one may arrive.
MachineEnd(r) ==
    /\ pcM[r] = "done"
    /\ pcM' = [pcM EXCEPT ![r] = "idle"]
    /\ req' = [req EXCEPT ![r] = NoRequest]
    /\ UNCHANGED << env, odds, live, models_store, runs, gen, cog, pcS, loc >>

MachineNext(r) ==
    \/ MachineArrive(r)
    \/ MachineCheck(r)
    \/ MachineOdds(r)
    \/ WrapperCollect(r)
    \/ WrapperFeatures(r)
    \/ WrapperTransform(r)
    \/ WrapperPredict(r)
    \/ MachineRender(r)
    \/ MachineSend(r)
    \/ MachineEnd(r)

SetupNext(t) ==
    \/ Trigger(t)
    \/ SetupEnter(t)
    \/ InitializeNbaTeams(t)
    \/ LoadRead(t)
    \/ LoadDropna(t)
    \/ LoadAllNan(t)
    \/ LoadImpute(t)
    \/ LoadScale(t)
    \/ SetupAfterLoad(t)
    \/ TrainSplit(t)
    \/ TrainClearEval(t)
    \/ TrainFit(t)
    \/ TrainEval(t)
    \/ TrainSelect(t)
    \/ TrainReady(t)
    \/ SetupAfterTrain(t)

Next ==
    \/ \E t \in Triggers : SetupNext(t)
    \/ \E r \in Requests : MachineNext(r)

Spec == Init /\ [][Next]_vars

\* ================================================================ claims
\* The inputs a caller may hand to the prediction-side helpers
FeatureVectors ==
    {None} \cup { [columns |-> Keep(FEATURE_COLS, S)] : S \in SUBSET Range(FEATURE_COLS) }
ModelNames == { "RF", "GB", "XGB", "LR", NoName }

Configured == Range(ModelsToTrainConfig(XGB_AVAILABLE))
\* train_all_models has returned in trigger t and the cog has not gone on yet
TrainReturned(t) == pcS[t] = "trained"
\* ... and its loop over the families had been entered (the split succeeded)
LoopDone(t) == pcS[t] = "trained" /\ loc[t].k > 0
HasPair(store, name) == DictGet(store.trained_models, name) # None
HasEvaluation(store, name) == DictGet(store.evaluation, name) # None
InWrapper(r) == pcM[r] \in { "collect", "features", "transform", "predict" }

\* C1: after every completed call of train_all_models, models_ready is true
\* iff a best model name was selected, its trained pair exists, and the
\* imputer and the scaler exist; nothing else enters the flag.
C1_ReadyIffSelectionAndArtifacts ==
    \A t \in Triggers :
        TrainReturned(t) =>
            ( models_store.models_ready <=>
                /\ models_store.best_model_name # NoName
                /\ HasPair(models_store, models_store.best_model_name)
                /\ models_store.imputer # None
                /\ models_store.scaler # None )

\* C2: in the initial models_store predict_scores_with_model returns no
\* numeric pair for any feature vector and any model name, and a /machine
\* interaction is inside its wrapper (on the way to the predictor) only
\* while models_ready is true.
C2_NoScoreBeforeTraining ==
    /\ models_store = InitialStore =>
         \A fv \in FeatureVectors, name \in ModelNames :
             PredictScoresWithModel(models_store, fv, name) = NonePair
    /\ \A r \in Requests : InWrapper(r) => models_store.models_ready

\* A /machine interaction was refused while nothing had been trained.
C2_Witness ==
    \E r \in Requests :
        /\ pcM[r] = "done"
        /\ req[r].answer = "ML models not ready."
        /\ models_store.trained_models = EmptyDict
        /\ models_store.imputer = None

\* The first precondition of the predictor that the call violates, in the
\* order of the claim
FirstViolated(store, fv, name) ==
    IF ~store.models_ready THEN "NotReadyError"
    ELSE IF ~HasPair(store, name) THEN "ModelMissingError"
    ELSE IF fv = None \/ fv.columns # store.feature_names THEN "SchemaMismatchError"
    ELSE "none"

\* C3 as claimed: every violated precondition gives an error outcome, and
\* calls that violate different preconditions give different outcomes.
C3_DistinctErrorsInOrder ==
    \A fv1 \in FeatureVectors, n1 \in ModelNames :
        LET v1 == FirstViolated(models_store, fv1, n1)
            out1 == PredictScoresWithModel(models_store, fv1, n1)
        IN  /\ v1 # "none" => out1 = NonePair
            /\ \A fv2 \in FeatureVectors, n2 \in ModelNames :
                 LET v2 == FirstViolated(models_store, fv2, n2)
                 IN  v1 # v2 =>
                       out1 # PredictScoresWithModel(models_store, fv2, n2)

\* C3 (amended): the predictor does not look at models_ready; a feature
\* vector that is None or empty, a model name without a stored pair, and a
\* vector whose columns are not those of the pair all give the one outcome
\* (None, None); every other call gives a numeric pair.
C3_OneErrorOutcome ==
    \A fv \in FeatureVectors, name \in ModelNames :
        LET out == PredictScoresWithModel(models_store, fv, name)
            pair == DictGet(models_store.trained_models, name)
            violated ==
                \/ fv = None
                \/ fv.columns = << >>
                \/ pair = None
                \/ pair.home.columns # fv.columns
                \/ pair.away.columns # fv.columns
        IN  IF violated THEN out = NonePair ELSE out = NumericPair

\* A wrapper got a score from a ready store in which a missing model and a
\* mismatching vector both give (None, None).
C3_Witness ==
    /\ models_store.models_ready
    /\ \E r \in Requests : pcM[r] = "render" /\ req[r].result = NumericPair
    /\ PredictScoresWithModel(models_store, [columns |-> models_store.feature_names],
                              "LR") = NonePair
    /\ PredictScoresWithModel(models_store, [columns |-> << >>],
                              models_store.best_model_name) = NonePair

\* C4: when a family raised during fit or evaluation, train_all_models still
\* returns a value, and every family that did not raise has its pair and its
\* evaluation stored.
C4_FamilyFailureIsolated ==
    \A t \in Triggers :
        /\ pcS[t] = "trained" => loc[t].ret # None
        /\ pcS[t] = "trained" /\ loc[t].raised # {} =>
             \A name \in Configured \ loc[t].raised :
                 HasPair(models_store, name) /\ HasEvaluation(models_store, name)

\* The first family raised and the later ones were fitted and evaluated.
C4_Witness ==
    \E t \in Triggers :
        /\ pcS[t] = "trained"
        /\ loc[t].raised = {"RF"}
        /\ HasEvaluation(models_store, "GB")
        /\ XGB_AVAILABLE /\ HasEvaluation(models_store, "XGB")

\* C5 as claimed: after a run in which exactly one family raised, the two
\* maps have entries for the other families only.
C5_NoEntryForFailedFamily ==
    \A t \in Triggers :
        LoopDone(t) /\ Cardinality(loc[t].raised) = 1 =>
            /\ Keys(models_store.evaluation) = Configured \ loc[t].raised
            /\ Keys(models_store.trained_models) = Configured \ loc[t].raised

\* C5 (amended): after a run in which exactly one family raised, both maps
\* hold a value other than None for the other families only; the name of
\* the family that raised is a key of both maps, with the value None.
C5_FailedFamilyMapsToNone ==
    \A t \in Triggers :
        LoopDone(t) /\ Cardinality(loc[t].raised) = 1 =>
            /\ Keys(models_store.evaluation) = Configured
            /\ Keys(models_store.trained_models) = Configured
            /\ \A name \in Configured :
                 /\ HasPair(models_store, name) <=> name \notin loc[t].raised
                 /\ HasEvaluation(models_store, name) <=> name \notin loc[t].raised

\* Exactly GB raised; its name is a key of both maps.
C5_Witness ==
    \E t \in Triggers :
        /\ LoopDone(t)
        /\ loc[t].raised = {"GB"}
        /\ "GB" \in Keys(models_store.trained_models)
        /\ ~HasPair(models_store, "GB")
        /\ HasPair(models_store, "RF")

\* Position of a family in the registration order
Position(name) ==
    CHOOSE i \in DOMAIN ModelsToTrainConfig(XGB_AVAILABLE) :
        ModelsToTrainConfig(XGB_AVAILABLE)[i] = name
Valid(store) == { name \in Configured : HasEvaluation(store, name) }
Mae(store, name) == DictGet(store.evaluation, name).average_mae

\* C6: the selected family has the lowest average MAE among the families
\* with a valid evaluation, and among those at the minimum it is the one
\* registered first.
C6_LowestMaeFirstRegistered ==
    \A t \in Triggers :
        (pcS[t] = "train_ready" \/ LoopDone(t)) /\ Valid(models_store) # {} =>
            LET best == models_store.best_model_name
            IN  /\ best \in Valid(models_store)
                /\ \A other \in Valid(models_store) :
                     \/ Mae(models_store, best) < Mae(models_store, other)
                     \/ /\ Mae(models_store, best) = Mae(models_store, other)
                        /\ Position(best) <= Position(other)

\* MAEs 8.5, 7.9, 7.9 in registration order: the second family is selected.
C6_Witness ==
    \E t \in Triggers :
        /\ LoopDone(t)
        /\ Valid(models_store) = { "RF", "GB", "XGB" }
        /\ Mae(models_store, "RF") = 85
        /\ Mae(models_store, "GB") = 79
        /\ Mae(models_store, "XGB") = 79
        /\ models_store.best_model_name = "GB"

\* C7: a run in which no family got a valid evaluation leaves
\* best_model_name empty and models_ready false, and /machine then answers
\* that the models are not ready and does not enter its wrapper.
C7_NoValidFamilyNotReady ==
    /\ \A t \in Triggers :
         TrainReturned(t) /\ Valid(models_store) = {} =>
             models_store.best_model_name = NoName /\ ~models_store.models_ready
    /\ \A r \in Requests :
         Valid(models_store) = {} =>
             /\ ~InWrapper(r)
             /\ pcM[r] = "done" =>
                  req[r].answer \in { "Initial setup pending.", "ML models not ready." }

\* Every family of a run raised and /machine answered "not ready".
C7_Witness ==
    \E r \in Requests :
        /\ pcM[r] = "done"
        /\ req[r].answer = "ML models not ready."
        /\ Keys(models_store.evaluation) = Configured
        /\ Valid(models_store) = {}
        /\ models_store.scaler # None

\* C8: whatever a /machine interaction reads of models_store was written by
\* one training run (or is the initial value), and that run was not in
\* progress at any of the reads.
C8_NoTornRead ==
    \A r \in Requests :
        /\ ~req[r].obs.torn
        /\ Cardinality(req[r].obs.runs) <= 1

\* An interaction read the flag, the schema, the artifacts, the best name
\* and the models of the one finished run.
C8_Witness ==
    \E r \in Requests :
        /\ pcM[r] = "render"
        /\ req[r].result = NumericPair
        /\ req[r].obs.runs = {1}
        /\ \A f \in Fields \ {"nba_teams_lu"} : gen[f] = 1

\* C9: no two invocations of perform_initial_model_setup are past the lock
\* at once, so no two training runs are in progress together.
InSetup(t) == pcS[t] \notin { "idle", "lock" }
C9_OneTrainingAtATime ==
    \A t1 \in Triggers, t2 \in Triggers :
        t1 # t2 => ~(InSetup(t1) /\ InSetup(t2))

\* A second invocation waits at the lock while the first one trains.
C9_Witness ==
    \E t1 \in Triggers, t2 \in Triggers :
        /\ t1 # t2
        /\ pcS[t1] = "train_fit"
        /\ pcS[t2] = "lock"

\* C10: a /machine interaction that has arrived while the pipeline is not
\* ready can take its next step at once, the answer it gets does not have to
\* wait for the training in flight.
C10_AnswersWithoutWaiting ==
    \A r \in Requests :
        pcM[r] = "lock" /\ ~models_store.models_ready => ENABLED MachineCheck(r)

\* ------------------------------------------------- loading (C11 to C13)
\* load_and_prep_historical_data has returned in trigger t
LoadReturned(t) == pcS[t] = "loaded"
LoadSucceeded(t) == LoadReturned(t) /\ loc[t].X # None
LoadFailed(t) == LoadReturned(t) /\ loc[t].X = None

\* a is b with some elements left out: no new name, no duplicate, same order
IsSubsequence(a, b) ==
    \E pos \in [DOMAIN a -> DOMAIN b] :
        /\ \A i \in DOMAIN a : a[i] = b[pos[i]]
        /\ \A i, j \in DOMAIN a : i < j => pos[i] < pos[j]

\* C11: after every successful load, models_store['feature_names'] is a
\* subsequence of FEATURE_COLS and the columns of the returned X are that
\* list, in that order.
C11_SchemaOnlyShrinks ==
    \A t \in Triggers :
        LoadSucceeded(t) =>
            /\ IsSubsequence(models_store.feature_names, FEATURE_COLS)
            /\ Len(models_store.feature_names) <= Len(FEATURE_COLS)
            /\ loc[t].X.columns = models_store.feature_names

\* A load succeeded after an all-NaN column had been dropped from the schema.
C11_Witness ==
    \E t \in Triggers :
        /\ LoadSucceeded(t)
        /\ loc[t].df.all_nan # {}
        /\ Len(models_store.feature_names) < Len(loc[t].df.usable)
        /\ Len(loc[t].df.usable) = Len(FEATURE_COLS)

\* C12 as claimed: a failed load leaves every field of models_store as the
\* call found it.
C12_FailedLoadChangesNothing ==
    \A t \in Triggers : LoadFailed(t) => models_store = loc[t].before

\* The three failures of the claim, read off what the load found in the file
TargetAbsent(df) == df.missing # {}
NoFeatureLeft(df) == df.usable # << >> /\ Range(df.usable) \subseteq df.all_nan

\* C13: when a target column is absent, no row is left, or no feature column
\* is left after the all-NaN columns were dropped, the load returns its
\* failure result; and after a failed load the cog does not train: it ends
\* the setup with models_ready false.
C13_LoadFailuresSkipTraining ==
    /\ [](\A t \in Triggers :
            LoadReturned(t) /\ loc[t].df # None
                /\ (TargetAbsent(loc[t].df) \/ ~loc[t].df.rows \/ NoFeatureLeft(loc[t].df))
            => LoadFailed(t))
    /\ [][\A t \in Triggers :
            LoadFailed(t) /\ pcS'[t] # pcS[t] =>
                /\ pcS'[t] = "idle"
                /\ ~models_store'.models_ready
                /\ initial_setup_complete']_vars

\* The setup has ended without training: every feature column of the file
\* was all-NaN, so the load failed at line 121 and the flag is false.
C13_Witness ==
    /\ initial_setup_complete
    /\ ~models_store.models_ready
    /\ models_store.feature_names = << >>
    /\ models_store.trained_models = EmptyDict
    /\ \A t \in Triggers : pcS[t] = "idle"

\* ==================================== the prediction-side helpers by value
\* Bounds of the inputs handed to the helpers
MaxGames == 3      \* games in a team's game log

\* A cell of a frame or a value of a stats dict: a number, or np.nan
NaN == [nan |-> TRUE]
Num(n) == [v |-> n]
NotNa(c) == c # None /\ c # NaN

NBA_API_ROLLING_WINDOW == 10

\* One game of a team's log: points, field-goal attempts and makes
PtsCells == { NaN, Num(96), Num(120) }
Shooting == { [FGA |-> 0, FGM |-> 0], [FGA |-> 50, FGM |-> 20] }
\* The fifteen stat columns of a game: the nine mean-type columns hold the
\* same cell, and so do the three attempts and the three makes columns
Game(p, sh) ==
    [ PTS |-> p, AST |-> p, BLK |-> p, DREB |-> p, OREB |-> p, PF |-> p,
      REB |-> p, STL |-> p, TOV |-> p,
      FGA |-> Num(sh.FGA), FG3A |-> Num(sh.FGA), FTA |-> Num(sh.FGA),
      FGM |-> Num(sh.FGM), FG3M |-> Num(sh.FGM), FTM |-> Num(sh.FGM) ]
Games == { Game(p, sh) : p \in PtsCells, sh \in Shooting }

\* A game log frame: whether it has the required stat columns, and its
\* games, the most recent first (as get_last_n_games_for_team returns them)
EmptyFrame == [cols |-> FALSE, games |-> << >>]
Logs ==
    {None, EmptyFrame} \cup
    { [cols |-> c, games |-> g] :
        c \in BOOLEAN, g \in UNION { [1..n -> Games] : n \in 1..MaxGames } }

\* Logs of more games than the rolling window: the most recent game and the
\* two oldest vary, the games between them are alike
LongCells == { Game(Num(p), sh) : p \in {100, 110},
                                  sh \in { [FGA |-> 50, FGM |-> 20], [FGA |-> 100, FGM |-> 70] } }
LongLogs ==
    { [ cols |-> TRUE,
        games |-> [i \in 1..(NBA_API_ROLLING_WINDOW + 2) |->
                     IF i = 1 THEN newest
                     ELSE IF i = NBA_API_ROLLING_WINDOW + 1 THEN older
                     ELSE IF i = NBA_API_ROLLING_WINDOW + 2 THEN oldest
                     ELSE Game(Num(100), [FGA |-> 50, FGM |-> 20])] ] :
        newest \in LongCells, older \in LongCells, oldest \in LongCells }

Reverse(seq) == [i \in 1..Len(seq) |-> seq[Len(seq) + 1 - i]]

\* The cells of column col that are not NaN, over the rows of a window
Known(window, col) == SelectSeq([i \in 1..Len(window) |-> window[i][col]], NotNa)
RECURSIVE SumCells(_)
SumCells(cells) == IF cells = << >> THEN 0 ELSE Head(cells).v + SumCells(Tail(cells))

\* rolling(window=n_roll, closed='left', min_periods=1) at the last row of
\* df: the n_roll rows before the last row; the last row is not in it
LastWindow(df, n_roll) ==
    LET n == Len(df)
    IN  SubSeq(df, IF n - n_roll < 1 THEN 1 ELSE n - n_roll, n - 1)

\* Variant: the sum is taken over every row of the log
RollingSumAll(df, col, n_roll) ==
    LET cells == Known(df, col)
    IN  IF cells = << >> THEN NaN ELSE Num(SumCells(cells))

\* .mean() and .sum() of that window: NaN without a known value (the means
\* of the bounded inputs are whole numbers)
RollingMean(df, col, n_roll) ==
    LET cells == Known(LastWindow(df, n_roll), col)
    IN  IF cells = << >> THEN NaN ELSE Num(SumCells(cells) \div Len(cells))
RollingSum(df, col, n_roll) ==
    LET cells == Known(LastWindow(df, n_roll), col)
    IN  IF cells = << >> THEN NaN ELSE Num(SumCells(cells))

\* Variant: no attempt in the window leaves the percentage unknown
PctOrUnknown(made, attempted) ==
    IF NotNa(attempted) /\ NotNa(made) /\ attempted.v > 0
    THEN Num((made.v * 1000) \div attempted.v)
    ELSE NaN

\* Lines 314-316: made / attempted (here in thousandths), else 0.0
Pct(made, attempted) ==
    IF NotNa(attempted) /\ NotNa(made) /\ attempted.v > 0
    THEN Num((made.v * 1000) \div attempted.v)
    ELSE Num(0)

\* stats.get(key, np.nan)
StatGet(stats, key) == IF key \in DOMAIN stats THEN stats[key] ELSE NaN

\* Lines 267-273, 292 and 301: the keys of live_stats and the columns the
\* means and the sums are taken of
expected_output_base_keys ==
    << "PTS_Roll10", "AST_Roll10", "BLK_Roll10", "DREB_Roll10",
       "FG3A_Roll10", "FG3M_Roll10", "FG3_PCT_Roll10",
       "FGA_Roll10", "FGM_Roll10", "FG_PCT_Roll10",
       "FTA_Roll10", "FTM_Roll10", "FT_PCT_Roll10",
       "OREB_Roll10", "PF_Roll10", "REB_Roll10", "STL_Roll10", "TOV_Roll10" >>
mean_stat_bases == << "PTS", "AST", "BLK", "DREB", "OREB", "PF", "REB", "STL", "TOV" >>
sum_stat_bases == << "FG3A", "FG3M", "FGA", "FGM", "FTA", "FTM" >>
StatKeys == Range(expected_output_base_keys)

\* Variant: the key is written without the window size
RollKeyShort(col_base) == col_base \o "_Roll"

\* f'{col_base}_Roll10'
RollKey(col_base) == col_base \o "_Roll10"

\* live_stats[key] = val: the key is added when the dict has not got it
SetKey(live_stats, key, val) ==
    [k \in DOMAIN live_stats \cup {key} |-> IF k = key THEN val ELSE live_stats[k]]

\* for col_base in col_bases:
\*     live_stats[f'{col_base}_Roll10'] = last_row.get(col_base, np.nan)
SetAll(live_stats, col_bases, last_row) ==
    LET written == { RollKey(b) : b \in Range(col_bases) }
    IN  [k \in DOMAIN live_stats \cup written |->
           IF k \in written
           THEN StatGet(last_row, CHOOSE b \in Range(col_bases) : RollKey(b) = k)
           ELSE live_stats[k]]

\* calculate_live_rolling_stats_for_log, lines 264-318
CalculateLiveRollingStatsForLog(game_log_df) ==
    LET live_stats == [key \in Range(expected_output_base_keys) |-> NaN]
    IN  IF game_log_df = None \/ game_log_df.games = << >> THEN live_stats
        ELSE IF ~game_log_df.cols THEN live_stats
        ELSE LET df == Reverse(game_log_df.games)
                 n_roll == NBA_API_ROLLING_WINDOW
                 last_row_means == [b \in Range(mean_stat_bases) |-> RollingMean(df, b, n_roll)]
                 last_row_sums == [b \in Range(sum_stat_bases) |-> RollingSum(df, b, n_roll)]
                 with_means == SetAll(live_stats, mean_stat_bases, last_row_means)
                 with_sums == SetAll(with_means, sum_stat_bases, last_row_sums)
                 s_fg3m == StatGet(with_sums, "FG3M_Roll10")
                 s_fg3a == StatGet(with_sums, "FG3A_Roll10")
                 s_fgm == StatGet(with_sums, "FGM_Roll10")
                 s_fga == StatGet(with_sums, "FGA_Roll10")
                 s_ftm == StatGet(with_sums, "FTM_Roll10")
                 s_fta == StatGet(with_sums, "FTA_Roll10")
             IN  SetKey(SetKey(SetKey(with_sums,
                     "FG3_PCT_Roll10", Pct(s_fg3m, s_fg3a)),
                     "FG_PCT_Roll10", Pct(s_fgm, s_fga)),
                     "FT_PCT_Roll10", Pct(s_ftm, s_fta))

\* f"Home_{stat_key_suffix}_PreGame" and its Away_ and Diff_ likes
FeatureName(prefix, stat_key_suffix) == prefix \o "_" \o stat_key_suffix \o "_PreGame"

\* Variant: the difference is taken the other way round
DiffAwayMinusHome(home_val, away_val) ==
    IF NotNa(home_val) /\ NotNa(away_val) THEN Num(away_val.v - home_val.v) ELSE NaN

\* Lines 348-353: home - away when both are known, else np.nan
DiffVal(home_val, away_val) ==
    IF NotNa(home_val) /\ NotNa(away_val) THEN Num(home_val.v - away_val.v) ELSE NaN

\* Lines 329-354 and the .get(col, np.nan) of line 362: the value of
\* live_features_dict for the schema column col
LiveFeature(col, home_stats, away_stats) ==
    LET diff_keys == { k \in DOMAIN home_stats : FeatureName("Diff", k) = col }
        away_keys == { k \in DOMAIN away_stats : FeatureName("Away", k) = col }
        home_keys == { k \in DOMAIN home_stats : FeatureName("Home", k) = col }
    IN  IF diff_keys # {}
        THEN LET k == CHOOSE k \in diff_keys : TRUE
             IN  DiffVal(StatGet(home_stats, k), StatGet(away_stats, k))
        ELSE IF away_keys # {} THEN away_stats[CHOOSE k \in away_keys : TRUE]
        ELSE IF home_keys # {} THEN home_stats[CHOOSE k \in home_keys : TRUE]
        ELSE NaN

\* Variant: the row has the resolved features only
BuildRowResolvedOnly(names, home_stats, away_stats) ==
    LET resolved == SelectSeq(names, LAMBDA col : NotNa(LiveFeature(col, home_stats, away_stats)))
    IN  [ columns |-> resolved,
          values  |-> [i \in 1..Len(resolved) |-> LiveFeature(resolved[i], home_stats, away_stats)] ]

\* Lines 326-363: the one-row frame over current_model_feature_names
BuildRow(names, home_stats, away_stats) ==
    [ columns |-> names,
      values  |-> [i \in 1..Len(names) |-> LiveFeature(names[i], home_stats, away_stats)] ]

\* imputer.transform puts the column's training mean where a cell is NaN;
\* scaler.transform standardises every cell
Imputed(c) == IF c = NaN THEN [mean |-> TRUE] ELSE c
Scaled(c) == IF "mean" \in DOMAIN c THEN [scaled_mean |-> TRUE] ELSE [scaled |-> c.v]

\* prepare_live_features_from_stats, lines 321-378
PrepareLiveFeaturesFromStats(store, home_stats, away_stats) ==
    IF home_stats = None \/ away_stats = None
    THEN [ columns |-> store.feature_names,
           values  |-> [i \in 1..Len(store.feature_names) |-> NaN] ]
    ELSE LET feature_vector_df == BuildRow(store.feature_names, home_stats, away_stats)
         IN  IF TransformLiveFeatures(store, feature_vector_df) = None THEN None
             ELSE [ columns |-> feature_vector_df.columns,
                    values  |-> [i \in 1..Len(feature_vector_df.columns) |->
                                   Scaled(Imputed(feature_vector_df.values[i]))] ]

\* What the NBA API may answer for a team: an exception, or a frame whose
\* GAME_DATE cells all parse or all fail to parse
TeamId == [id |-> 1]
SampleGame == Game(Num(96), [FGA |-> 50, FGM |-> 20])
UpstreamFrames ==
    {EmptyFrame} \cup
    { [cols |-> c, games |-> [i \in 1..n |-> SampleGame]] : c \in BOOLEAN, n \in {1, MaxGames} }
Upstreams ==
    { [raises |-> TRUE] } \cup
    { [raises |-> FALSE, dates_ok |-> d, frame |-> f] : d \in BOOLEAN, f \in UpstreamFrames }

\* Variant: a failed fetch is answered with a made-up log
GetLogOrDefault(api_available, team_id, upstream) ==
    IF upstream.raises
    THEN [cols |-> TRUE, games |-> << SampleGame, SampleGame >>]
    ELSE upstream.frame

\* get_last_n_games_for_team, lines 247-262, with n = NBA_API_ROLLING_WINDOW + 5
GetLastNGamesForTeam(api_available, team_id, upstream) ==
    IF ~api_available \/ team_id = None THEN EmptyFrame
    ELSE IF upstream.raises THEN EmptyFrame
    ELSE IF upstream.frame.games = << >> THEN EmptyFrame
    ELSE IF ~upstream.dates_ok THEN EmptyFrame
    ELSE LET n == NBA_API_ROLLING_WINDOW + 5
             df == upstream.frame
         IN  [df EXCEPT !.games = SubSeq(@, 1, IF Len(@) < n THEN Len(@) ELSE n)]

\* Lines 249-254: what one call does towards the API: the request, and the
\* time.sleep(NBA_API_DELAY) that follows it inside the try
ApiEvents(api_available, team_id, upstream) ==
    IF ~api_available \/ team_id = None THEN << >>
    ELSE IF upstream.raises THEN << "request" >>
    ELSE << "request", "sleep" >>

\* Lines 158-166 of the wrapper: the home log is fetched, then the away log
WrapperEvents(api_available, _h_id, _a_id, h_upstream, a_upstream) ==
    IF _h_id = None \/ _a_id = None THEN << >>
    ELSE ApiEvents(api_available, _h_id, h_upstream)
           \o ApiEvents(api_available, _a_id, a_upstream)

\* _h_log.empty: the frame has no row
LogEmpty(log) == log.games = << >>
\* Variant: the check of the stats is missing
NeverAllNaN(stats) == FALSE

\* all(np.isnan(v) for v in stats.values())
AllNaN(stats) == \A key \in DOMAIN stats : stats[key] = NaN
\* _f_vec.isnull().values.any()
AnyNull(df) == \E i \in DOMAIN df.values : df.values[i] = NaN

\* process_single_game_sync_wrapper, lines 157-196, for the team ids found
\* in the lookup and the answers of the API
ProcessSingleGame(store, api_available, _h_id, _a_id, h_upstream, a_upstream) ==
    IF _h_id = None \/ _a_id = None THEN [error |-> "Team ID not found"]
    ELSE
    LET _h_log == GetLastNGamesForTeam(api_available, _h_id, h_upstream)
        _a_log == GetLastNGamesForTeam(api_available, _a_id, a_upstream)
    IN  IF LogEmpty(_h_log) \/ LogEmpty(_a_log)
        THEN [error |-> "Failed to get sufficient game logs"]
        ELSE
        LET _h_stats == CalculateLiveRollingStatsForLog(_h_log)
            _a_stats == CalculateLiveRollingStatsForLog(_a_log)
        IN  IF AllNaN(_h_stats) \/ AllNaN(_a_stats)
            THEN [error |-> "Team stats consist entirely of NaNs after calculation."]
            ELSE
            LET _f_vec == PrepareLiveFeaturesFromStats(store, _h_stats, _a_stats)
            IN  IF _f_vec = None
                THEN [error |-> "Helper failed to prepare features (None)"]
                ELSE IF AnyNull(_f_vec)
                THEN [error |-> "Prepared features contain NaNs."]
                ELSE PredictScoresWithModel(store, _f_vec, store.best_model_name)

\* Lines 201-215 of machine_predict: the line shown for one game
RenderedLine(result) ==
    IF "error" \in DOMAIN result THEN "Pred Error"
    ELSE IF result.numeric THEN "Pred Score"
    ELSE "Pred failed (model returned None)."

\* ---------------------------------- direct calls of the prediction side
\* The schemas a store may hold when a helper is called: the nominal order,
\* other orders and lengths, a column no stat resolves, and names without
\* the _PreGame suffix
LiveSchemas ==
    { << "Home_PTS_Roll10_PreGame", "Away_PTS_Roll10_PreGame", "Diff_PTS_Roll10_PreGame" >>,
      << "Diff_PTS_Roll10_PreGame", "Away_PTS_Roll10_PreGame", "Home_PTS_Roll10_PreGame" >>,
      << "Home_AST_Roll10_PreGame", "Home_PTS_Roll10_PreGame" >>,
      << "Diff_PTS_Roll10_PreGame" >>,
      << "Home_FG_PCT_Roll10_PreGame", "Away_PTS_Roll10_PreGame" >>,
      << "Home_PTS_Roll", "Away_PTS_Roll", "Diff_PTS_Roll" >> }

\* The stores a helper may be called in: nothing fitted, the imputer only,
\* or both artifacts; with or without a trained and selected family
LiveStores ==
    { [ InitialStore EXCEPT
          !.feature_names = schema,
          !.imputer = IF artifacts = "none" THEN None ELSE [columns |-> schema],
          !.scaler = IF artifacts = "both" THEN [columns |-> schema] ELSE None,
          !.trained_models =
              IF trained
              THEN DictSet(EmptyDict, "RF", [home |-> [columns |-> schema],
                                            away |-> [columns |-> schema]])
              ELSE EmptyDict,
          !.best_model_name = IF trained THEN "RF" ELSE NoName,
          !.models_ready = trained /\ artifacts = "both" ] :
        schema \in LiveSchemas,
        artifacts \in { "none", "imputer_only", "both" },
        trained \in BOOLEAN }

\* The stats dicts handed to prepare_live_features_from_stats
StatCells == { NaN, Num(100), Num(110) }
StatsInputs ==
    {None} \cup
    UNION { [keys -> StatCells] : keys \in SUBSET { "PTS_Roll10", "PTS_Roll" } }

\* The vectors handed to predict_scores_with_model
LiveVectors ==
    {None} \cup { [columns |-> columns] : columns \in LiveSchemas \cup { << >> } }

InitLive ==
    /\ OddsAtImport
    /\ XGB_AVAILABLE = FALSE
    /\ NBA_API_AVAILABLE \in BOOLEAN
    /\ models_store \in LiveStores
    /\ runs = 0
    /\ gen = [f \in Fields |-> 0]
    /\ lock = {}
    /\ initial_setup_complete = TRUE
    /\ pcS = [t \in Triggers |-> "idle"]
    /\ loc = [t \in Triggers |-> NoLocals]
    /\ pcM = [r \in Requests |-> "idle"]
    /\ req = [r \in Requests |-> NoRequest]
    /\ live = NoCall

\* Variant: the transform refits the imputer on the live row
RefitOnLive(store, feature_vector_df) ==
    IF feature_vector_df = None \/ store.imputer = None THEN store
    ELSE [store EXCEPT !.imputer = [columns |-> feature_vector_df.columns, fitted_on |-> "live"]]

\* models_store after a call of prepare_live_features_from_stats that built
\* feature_vector_df: lines 369 and 371 call transform, nothing is assigned
StoreAfterPrepare(store, feature_vector_df) == store

LiveCalculate ==
    /\ live = NoCall
    /\ \E game_log_df \in Logs \cup LongLogs :
         live' = [ call |-> "calculate", game_log_df |-> game_log_df,
                   out |-> CalculateLiveRollingStatsForLog(game_log_df) ]
    /\ UNCHANGED << env, odds, models_store, runs, gen, cog, pcS, loc, machine >>

LivePrepare ==
    /\ live = NoCall
    /\ \E home_stats \in StatsInputs, away_stats \in StatsInputs :
         LET row == IF home_stats = None \/ away_stats = None THEN None
                    ELSE BuildRow(models_store.feature_names, home_stats, away_stats)
         IN  /\ live' = [ call |-> "prepare", home_stats |-> home_stats,
                          away_stats |-> away_stats, row |-> row,
                          out |-> PrepareLiveFeaturesFromStats(models_store, home_stats,
                                                               away_stats) ]
             /\ models_store' = StoreAfterPrepare(models_store, row)
    /\ UNCHANGED << env, odds, runs, gen, cog, pcS, loc, machine >>

LivePredict ==
    /\ live = NoCall
    /\ \E feature_vector_df \in LiveVectors, model_name_key \in { "RF", "GB", NoName } :
         live' = [ call |-> "predict", feature_vector_df |-> feature_vector_df,
                   model_name_key |-> model_name_key,
                   out |-> PredictScoresWithModel(models_store, feature_vector_df,
                                                  model_name_key) ]
    /\ UNCHANGED << env, odds, models_store, runs, gen, cog, pcS, loc, machine >>

LiveWrapper ==
    /\ live = NoCall
    /\ \E _h_id \in {None, TeamId}, _a_id \in {None, TeamId},
          h_upstream \in Upstreams, a_upstream \in Upstreams :
         LET result == ProcessSingleGame(models_store, NBA_API_AVAILABLE, _h_id, _a_id,
                                         h_upstream, a_upstream)
         IN  live' = [ call |-> "wrapper", _h_id |-> _h_id, _a_id |-> _a_id,
                       h_upstream |-> h_upstream, a_upstream |-> a_upstream,
                       out |-> result, line |-> RenderedLine(result),
                       events |-> WrapperEvents(NBA_API_AVAILABLE, _h_id, _a_id,
                                                h_upstream, a_upstream) ]
    /\ UNCHANGED << env, odds, models_store, runs, gen, cog, pcS, loc, machine >>

\* The call has returned; the next one may be made.
LiveReturn ==
    /\ live # NoCall
    /\ live' = NoCall
    /\ UNCHANGED << env, odds, models_store, runs, gen, cog, pcS, loc, machine >>

NextLive ==
    \/ LiveCalculate
    \/ LivePrepare
    \/ LivePredict
    \/ LiveWrapper
    \/ LiveReturn

SpecLive == InitLive /\ [][NextLive]_vars

\* ------------------------------------ the rows of the historical data
\* SpecRows calls load_and_prep_historical_data on a CSV that has both
\* target columns and one feature column, and follows its rows.
MaxRows == 2       \* rows of the CSV

\* What a cell of the file may hold besides a number or nothing: a text that
\* is no number, or an infinity
Text == [text |-> TRUE]
Inf == [inf |-> TRUE]
TargetCells == { NaN, Num(100), Text, Inf }
FeatureCells == { NaN, Num(10), Num(30), Text }
CsvRows == [ home : TargetCells, away : TargetCells, f : FeatureCells ]
CsvFiles == UNION { [1..n -> CsvRows] : n \in 1..MaxRows }

\* pd.read_csv(filepath, low_memory=False): a column with a text cell is
\* read as text throughout, its empty cells excepted
AsRead(rows, col, cell) ==
    IF cell # NaN /\ \E i \in DOMAIN rows : rows[i][col] = Text THEN Text ELSE cell
ReadCsv(rows) ==
    [i \in DOMAIN rows |-> [col \in DOMAIN rows[i] |-> AsRead(rows, col, rows[i][col])]]

\* pd.to_numeric(errors='coerce') of a cell of the file: the model's texts
\* are no numbers
ToNumeric(rows, col, i) == IF rows[i][col] = Text THEN NaN ELSE rows[i][col]
\* df_ml.replace([np.inf, -np.inf], np.nan)
ReplaceInf(cell) == IF cell = Inf THEN NaN ELSE cell

\* dropna(subset=[TARGET_HOME_SCORE, TARGET_AWAY_SCORE]) keeps the row
HasTargets(row) == row.home # NaN /\ row.away # NaN

\* SimpleImputer(strategy='mean').fit: the sum and the count of the known
\* cells of the column
FitImputer(X) ==
    LET cells == SelectSeq(X, NotNa)
    IN  [sum |-> SumCells(cells), n |-> Len(cells)]

\* Lines 97-103: the features coerced, the infinities replaced and the
\* rows without a target dropped
DroppedNa(rows) ==
    LET df == ReadCsv(rows)
        coerced == [i \in DOMAIN df |->
                      [ home |-> ReplaceInf(df[i].home),
                        away |-> ReplaceInf(df[i].away),
                        f    |-> ReplaceInf(ToNumeric(rows, "f", i)) ]]
    IN  SelectSeq(coerced, HasTargets)

\* load_and_prep_historical_data, lines 97-140, on the rows of the file
LoadRows(rows) ==
    LET df_ml == DroppedNa(rows)
        X == [i \in DOMAIN df_ml |-> df_ml[i].f]
    IN  IF df_ml = << >> THEN None
        ELSE IF \A i \in DOMAIN X : X[i] = NaN THEN None
        ELSE [ X       |-> X,
               y_home  |-> [i \in DOMAIN df_ml |-> df_ml[i].home],
               y_away  |-> [i \in DOMAIN df_ml |-> df_ml[i].away],
               imputer |-> FitImputer(X) ]

InitRows ==
    /\ OddsAtImport
    /\ XGB_AVAILABLE = FALSE
    /\ NBA_API_AVAILABLE = FALSE
    /\ models_store = InitialStore
    /\ runs = 0
    /\ gen = [f \in Fields |-> 0]
    /\ lock = {}
    /\ initial_setup_complete = FALSE
    /\ pcS = [t \in Triggers |-> "idle"]
    /\ loc = [t \in Triggers |-> NoLocals]
    /\ pcM = [r \in Requests |-> "idle"]
    /\ req = [r \in Requests |-> NoRequest]
    /\ live = NoCall

\* The one call of the setup: the schema is stored, then the artifacts when
\* rows and a feature are left.
RowsLoad ==
    /\ live = NoCall
    /\ runs = 0
    /\ runs' = 1
    /\ \E rows \in CsvFiles :
         LET out == LoadRows(rows)
             names == << FEATURE_COLS[1] >>
         IN  /\ live' = [ call |-> "load", rows |-> rows, out |-> out ]
             /\ models_store' =
                  IF out = None
                  THEN [models_store EXCEPT
                          !.feature_names = IF DroppedNa(rows) = << >> THEN names ELSE << >>]
                  ELSE [models_store EXCEPT
                          !.feature_names = names,
                          !.imputer = [columns |-> names, statistics |-> out.imputer],
                          !.scaler = [columns |-> names]]
    /\ UNCHANGED << env, odds, gen, cog, pcS, loc, machine >>

RowsReturn ==
    /\ live # NoCall
    /\ live.call = "load"
    /\ live' = NoCall
    /\ UNCHANGED << env, odds, models_store, runs, gen, cog, pcS, loc, machine >>

NextRows ==
    \/ RowsLoad
    \/ RowsReturn

SpecRows == InitRows /\ [][NextRows]_vars

\* ------------------------------------------------- get_nba_odds_data
\* SpecOdds follows the /machine commands that have reached line 141 of the
\* cog, the clock and the hourly reset task.
\* What the Odds API may do with a request (line 98): answer with a 2xx
\* status, with another status, or not at all (timeout, connection error)
Responses == { "2xx", "4xx", "raises" }
\* What response.json() may give (line 103): an exception, an empty list,
\* games that the loop of lines 105-125 processes, or games it raises on
Bodies == { "raises", "empty", "games", "malformed" }

\* The count of a day when the commands arrive: at import, or after 319
\* requests of the day were answered (an answer with an empty list is
\* counted and not cached)
CreditsSoFar == { 0, MAX_ODDS_API_CREDITS_PER_DAY - 1 }

InitOdds ==
    /\ ODDS_API_KEY \in { "key", "YOUR_API_KEY" }
    /\ ODDS_API_CREDITS_USED_TODAY \in CreditsSoFar
    /\ LAST_CREDIT_RESET_DAY = 1
    /\ ODDS_CACHE = None
    /\ clock = [monotonic |-> 0, day |-> 1]
    /\ odds_call = [c \in Commands |-> IdleCall]
    /\ odds_ret = NoReturn
    /\ n_calls = 0
    /\ XGB_AVAILABLE = FALSE
    /\ NBA_API_AVAILABLE = TRUE
    /\ models_store \in { store \in LiveStores :
                             store.models_ready /\ Len(store.feature_names) = 1 }
    /\ runs = 0
    /\ gen = [f \in Fields |-> 0]
    /\ lock = {}
    /\ initial_setup_complete = TRUE
    /\ pcS = [t \in Triggers |-> "idle"]
    /\ loc = [t \in Triggers |-> NoLocals]
    /\ pcM = [r \in Requests |-> "idle"]
    /\ req = [r \in Requests |-> NoRequest]
    /\ live = NoCall

rest == << env, models_store, runs, gen, cog, pcS, loc, machine, live >>

\* Variant: the cache is not looked at
CacheIgnored(cache, current_time) == FALSE

\* Lines 85-87: the key is in ODDS_CACHE and the entry is younger than
\* CACHE_DURATION_SECONDS
CacheYoung(cache, current_time) ==
    cache # None /\ (current_time - cache.cached_time) < CACHE_DURATION_SECONDS

\* return value, at one of the return statements of lines 88 to 127: the
\* command is out of get_nba_odds_data
OddsReturn(c, value, at) ==
    /\ odds_call' = [odds_call EXCEPT ![c] = IdleCall]
    /\ odds_ret' = [by |-> c, value |-> value, at |-> at]

\* Lines 83-98, which run without an await: the cache, the credit limit,
\* the key, then the request is sent.
OddsCall(c) ==
    /\ odds_call[c].pc = "idle"
    /\ n_calls < MaxCalls
    /\ n_calls' = n_calls + 1
    /\ LET current_time == clock.monotonic
       IN  IF CacheYoung(ODDS_CACHE, current_time)
           THEN OddsReturn(c, ODDS_CACHE.cached_data, "cached")
           ELSE IF ODDS_API_CREDITS_USED_TODAY >= MAX_ODDS_API_CREDITS_PER_DAY
           THEN OddsReturn(c, "CREDIT_LIMIT_REACHED", "limit")
           ELSE IF ODDS_API_KEY = "YOUR_API_KEY"
           THEN OddsReturn(c, None, "no_key")
           ELSE /\ odds_call' = [odds_call EXCEPT ![c] =
                                    [pc |-> "get", current_time |-> current_time]]
                /\ UNCHANGED odds_ret
    /\ UNCHANGED << ODDS_API_KEY, ODDS_API_CREDITS_USED_TODAY, LAST_CREDIT_RESET_DAY,
                    ODDS_CACHE, clock, rest >>

\* Lines 98-102: the response is there, or the request raised; a 2xx answer
\* is counted, any other makes raise_for_status raise.
OddsResponse(c) ==
    /\ odds_call[c].pc = "get"
    /\ \E response \in Responses :
         IF response = "2xx"
         THEN /\ ODDS_API_CREDITS_USED_TODAY' = ODDS_API_CREDITS_USED_TODAY + 1
              /\ odds_call' = [odds_call EXCEPT ![c].pc = "json"]
              /\ UNCHANGED odds_ret
         ELSE /\ OddsReturn(c, None, "raised")
              /\ UNCHANGED ODDS_API_CREDITS_USED_TODAY
    /\ UNCHANGED << ODDS_API_KEY, LAST_CREDIT_RESET_DAY, ODDS_CACHE, clock, n_calls, rest >>

\* Lines 103-127: the body is read and processed; only processed games are
\* put in the cache, with the time the call started at.
OddsJson(c) ==
    /\ odds_call[c].pc = "json"
    /\ \E data \in Bodies :
         IF data = "games"
         THEN LET processed_games == [fetched_at |-> odds_call[c].current_time]
              IN  /\ ODDS_CACHE' = [ cached_time |-> odds_call[c].current_time,
                                     cached_data |-> processed_games ]
                  /\ OddsReturn(c, processed_games, "fetched")
         ELSE /\ OddsReturn(c, None, IF data = "empty" THEN "no_data" ELSE "raised")
              /\ UNCHANGED ODDS_CACHE
    /\ UNCHANGED << ODDS_API_KEY, ODDS_API_CREDITS_USED_TODAY, LAST_CREDIT_RESET_DAY,
                    clock, n_calls, rest >>

\* Time passes.
Tick ==
    /\ clock.monotonic < MaxTicks * 300
    /\ clock' = [clock EXCEPT !.monotonic = @ + 300]
    /\ UNCHANGED << ODDS_API_KEY, ODDS_API_CREDITS_USED_TODAY, LAST_CREDIT_RESET_DAY,
                    ODDS_CACHE, odds_call, odds_ret, n_calls, rest >>

\* Midnight UTC.
NewDay ==
    /\ clock.day <= MaxDays
    /\ clock' = [clock EXCEPT !.day = @ + 1]
    /\ UNCHANGED << ODDS_API_KEY, ODDS_API_CREDITS_USED_TODAY, LAST_CREDIT_RESET_DAY,
                    ODDS_CACHE, odds_call, odds_ret, n_calls, rest >>

\* daily_credit_reset, lines 47-54: an hourly pass of the loop
DailyCreditReset ==
    /\ IF clock.day # LAST_CREDIT_RESET_DAY
       THEN /\ ODDS_API_CREDITS_USED_TODAY' = 0
            /\ LAST_CREDIT_RESET_DAY' = clock.day
       ELSE UNCHANGED << ODDS_API_CREDITS_USED_TODAY, LAST_CREDIT_RESET_DAY >>
    /\ UNCHANGED << ODDS_API_KEY, ODDS_CACHE, clock, odds_call, odds_ret, n_calls, rest >>

NextOdds ==
    \/ \E c \in Commands : OddsCall(c) \/ OddsResponse(c) \/ OddsJson(c)
    \/ Tick
    \/ NewDay
    \/ DailyCreditReset

SpecOdds == InitOdds /\ [][NextOdds]_vars

\* --------------------------------------- prediction side (C14 to C20)
Prepared == live.call = "prepare"
Calculated == live.call = "calculate"
Wrapped == live.call = "wrapper"

\* C14 as claimed: while the imputer or the scaler is absent,
\* prepare_live_features_from_stats returns no feature vector, whatever the
\* home and away stats are, None included.
C14_NoVectorWithoutArtifacts ==
    Prepared /\ (models_store.imputer = None \/ models_store.scaler = None)
        => live.out = None

\* C15: no call of a prediction-side helper changes a field of models_store.
C15_PredictionLeavesStore == [][models_store' = models_store]_vars

\* A row built from live stats went through the stored imputer and scaler.
C15_Witness ==
    /\ Prepared
    /\ live.row # None
    /\ live.out # None
    /\ \E i \in DOMAIN live.out.values : "scaled" \in DOMAIN live.out.values[i]
    /\ models_store.imputer = [columns |-> models_store.feature_names]

\* The schema column col is resolved by the stats: a home stat under its
\* Home_ name, an away stat under its Away_ name, or both under a Diff_ name
Resolves(col, home_stats, away_stats) ==
    \/ \E k \in DOMAIN home_stats : col = "Home_" \o k \o "_PreGame"
    \/ \E k \in DOMAIN away_stats : col = "Away_" \o k \o "_PreGame"
    \/ \E k \in DOMAIN home_stats \cap DOMAIN away_stats : col = "Diff_" \o k \o "_PreGame"

\* C16: the row built for any stats has the schema as its columns, one value
\* per column, and NaN at the position of every column the stats do not
\* resolve; a returned vector keeps these columns.
C16_OneValuePerSchemaFeature ==
    Prepared =>
        /\ live.row # None =>
              /\ live.row.columns = models_store.feature_names
              /\ DOMAIN live.row.values = 1..Len(models_store.feature_names)
              /\ \A i \in 1..Len(models_store.feature_names) :
                   ~Resolves(models_store.feature_names[i], live.home_stats, live.away_stats)
                       => live.row.values[i] = NaN
        /\ live.out # None =>
              /\ live.out.columns = models_store.feature_names
              /\ DOMAIN live.out.values = 1..Len(models_store.feature_names)

\* The first column of the schema is not resolved and the second one is.
C16_Witness ==
    /\ Prepared
    /\ live.row # None
    /\ models_store.feature_names = << "Home_AST_Roll10_PreGame", "Home_PTS_Roll10_PreGame" >>
    /\ live.row.values = << NaN, Num(110) >>

\* C17 as claimed, on its example: schema [Home_PTS_Roll, Away_PTS_Roll,
\* Diff_PTS_Roll], home {PTS_Roll: 110}, away {PTS_Roll: 100} give [110, 100, 10].
C17_ExampleBySpecNames ==
    Prepared
      /\ models_store.feature_names = << "Home_PTS_Roll", "Away_PTS_Roll", "Diff_PTS_Roll" >>
      /\ live.home_stats = [k \in {"PTS_Roll"} |-> Num(110)]
      /\ live.away_stats = [k \in {"PTS_Roll"} |-> Num(100)]
    => live.row.values = << Num(110), Num(100), Num(10) >>

\* C17 (amended): a schema feature named Home_<stat>_PreGame takes
\* home[<stat>], Away_<stat>_PreGame takes away[<stat>], and
\* Diff_<stat>_PreGame takes home[<stat>] - away[<stat>] when both are known
\* and NaN otherwise; schema [Home_PTS_Roll10_PreGame, Away_PTS_Roll10_PreGame,
\* Diff_PTS_Roll10_PreGame], home {PTS_Roll10: 110}, away {PTS_Roll10: 100}
\* give [110, 100, 10].
C17_ResolvedByPreGameName ==
    Prepared /\ live.row # None =>
        LET names == models_store.feature_names
            home == live.home_stats
            away == live.away_stats
            known(stats, k) == k \in DOMAIN stats /\ stats[k] # NaN
        IN  /\ \A i \in 1..Len(names), k \in { "PTS_Roll10", "PTS_Roll" } :
                  /\ names[i] = "Home_" \o k \o "_PreGame" /\ k \in DOMAIN home
                        => live.row.values[i] = home[k]
                  /\ names[i] = "Away_" \o k \o "_PreGame" /\ k \in DOMAIN away
                        => live.row.values[i] = away[k]
                  /\ names[i] = "Diff_" \o k \o "_PreGame"
                        => live.row.values[i] =
                             IF known(home, k) /\ known(away, k)
                             THEN Num(home[k].v - away[k].v) ELSE NaN
            /\ ( /\ names = << "Home_PTS_Roll10_PreGame", "Away_PTS_Roll10_PreGame",
                                "Diff_PTS_Roll10_PreGame" >>
                  /\ home = [k \in {"PTS_Roll10"} |-> Num(110)]
                  /\ away = [k \in {"PTS_Roll10"} |-> Num(100)] )
                => live.row.values = << Num(110), Num(100), Num(10) >>

\* The example, with the names the code builds, was computed.
C17_Witness ==
    /\ Prepared
    /\ models_store.feature_names =
           << "Home_PTS_Roll10_PreGame", "Away_PTS_Roll10_PreGame", "Diff_PTS_Roll10_PreGame" >>
    /\ live.home_stats = [k \in {"PTS_Roll10"} |-> Num(110)]
    /\ live.away_stats = [k \in {"PTS_Roll10"} |-> Num(100)]
    /\ live.row.values = << Num(110), Num(100), Num(10) >>

\* C18 as claimed: for a log of exactly 3 games with known points (window
\* 10), the mean-type stat is the arithmetic mean of the 3 games' values.
C18_MeanOfThreeGames ==
    Calculated /\ live.game_log_df # None /\ live.game_log_df.cols
      /\ Len(live.game_log_df.games) = 3
      /\ (\A i \in 1..3 : live.game_log_df.games[i].PTS # NaN)
    => LET g == live.game_log_df.games
       IN  live.out.PTS_Roll10 = Num((g[1].PTS.v + g[2].PTS.v + g[3].PTS.v) \div 3)

\* The field-goal attempts of the games of a log, summed over its trailing
\* window (its n_roll most recent games)
AttemptsInWindow(games, n_roll) ==
    LET window == SubSeq(games, 1, IF Len(games) < n_roll THEN Len(games) ELSE n_roll)
    IN  SumCells([i \in 1..Len(window) |-> window[i].FGA])

\* C19: for a log with games and the required columns, when the attempts of
\* the trailing window sum to zero (or the sum the function stores is zero)
\* the percentage is 0.0, not NaN.
C19_ZeroAttemptsGiveZero ==
    Calculated /\ live.game_log_df # None /\ live.game_log_df.cols
      /\ live.game_log_df.games # << >>
    => /\ AttemptsInWindow(live.game_log_df.games, NBA_API_ROLLING_WINDOW) = 0
            => live.out.FG_PCT_Roll10 = Num(0)
       /\ live.out.FGA_Roll10 = Num(0) => live.out.FG_PCT_Roll10 = Num(0)

\* A full log without a single attempt: the sum is 0 and the percentage 0.0,
\* while the mean of the points is known.
C19_Witness ==
    /\ Calculated
    /\ live.game_log_df # None
    /\ Len(live.game_log_df.games) = MaxGames
    /\ AttemptsInWindow(live.game_log_df.games, NBA_API_ROLLING_WINDOW) = 0
    /\ live.out.FGA_Roll10 = Num(0)
    /\ live.out.FG_PCT_Roll10 = Num(0)
    /\ live.out.PTS_Roll10 # NaN

\* Collecting the log of a team failed: the API raised, answered an empty
\* frame, or a frame whose dates or stat columns cannot be used
CollectionFailed(upstream) ==
    \/ upstream.raises
    \/ upstream.frame.games = << >>
    \/ ~upstream.dates_ok
    \/ ~upstream.frame.cols

\* C20: when collecting the log of either team failed, the wrapper returns
\* an error text, which /machine renders as a prediction error; no score
\* pair is returned.
C20_CollectionFailureIsReported ==
    Wrapped /\ (CollectionFailed(live.h_upstream) \/ CollectionFailed(live.a_upstream))
    => /\ "error" \in DOMAIN live.out
       /\ live.line = "Pred Error"

\* The fetch of the home log raised while the away log was fine and the
\* models were ready: the game is reported with the game-log error.
C20_Witness ==
    /\ Wrapped
    /\ models_store.models_ready /\ NBA_API_AVAILABLE
    /\ live._h_id # None /\ live._a_id # None
    /\ live.h_upstream.raises
    /\ ~CollectionFailed(live.a_upstream)
    /\ live.out = [error |-> "Failed to get sufficient game logs"]
    /\ live.line = "Pred Error"

\* ------------------------------------------ rolling window (C21, C23, C24)
\* The mean and the sum of the known cells of a column over a window of games
MeanOf(window, col) ==
    LET cells == Known(window, col)
    IN  IF cells = << >> THEN NaN ELSE Num(SumCells(cells) \div Len(cells))
SumOf(window, col) ==
    LET cells == Known(window, col)
    IN  IF cells = << >> THEN NaN ELSE Num(SumCells(cells))

\* The n most recent games of a log (which has the most recent game first)
MostRecent(games, n) == SubSeq(games, 1, IF Len(games) < n THEN Len(games) ELSE n)

\* C21 as claimed: for a log of more than N = 10 games, every mean and every
\* sum returned is taken over exactly the N most recent games of the log.
C21_FromTheNMostRecentGames ==
    Calculated /\ live.game_log_df # None /\ live.game_log_df.cols
      /\ Len(live.game_log_df.games) > NBA_API_ROLLING_WINDOW
    => LET recent == MostRecent(live.game_log_df.games, NBA_API_ROLLING_WINDOW)
       IN  /\ \A b \in Range(mean_stat_bases) :
                live.out[RollKey(b)] = MeanOf(recent, b)
           /\ \A b \in Range(sum_stat_bases) :
                live.out[RollKey(b)] = SumOf(recent, b)

\* The games the stats of a log are taken over, as the code has it: the
\* n games before the most recent one (see C21)
StatWindow(games, n) == SubSeq(games, 2, IF Len(games) < n + 1 THEN Len(games) ELSE n + 1)

\* The made/attempted pairs and the key of their percentage
PctTriples ==
    { << "FG3M", "FG3A", "FG3_PCT_Roll10" >>,
      << "FGM", "FGA", "FG_PCT_Roll10" >>,
      << "FTM", "FTA", "FT_PCT_Roll10" >> }

\* C23: when the attempts of the window sum to more than zero, each
\* percentage is (sum of makes) / (sum of attempts), here in thousandths,
\* over the window the mean-type stats are taken over.
C23_PercentageIsRatioOfSums ==
    Calculated /\ live.game_log_df # None /\ live.game_log_df.cols
      /\ live.game_log_df.games # << >>
    => LET window == StatWindow(live.game_log_df.games, NBA_API_ROLLING_WINDOW)
       IN  /\ \A b \in Range(mean_stat_bases) : live.out[RollKey(b)] = MeanOf(window, b)
           /\ \A t \in PctTriples :
                LET made == SumOf(window, t[1])
                    attempted == SumOf(window, t[2])
                IN  attempted # NaN /\ attempted.v > 0
                    => live.out[t[3]] = Num((made.v * 1000) \div attempted.v)

\* The mean of the per-game percentages of a window, in thousandths
RECURSIVE SumOfPercentages(_)
SumOfPercentages(window) ==
    IF window = << >> THEN 0
    ELSE (Head(window).FGM.v * 1000) \div Head(window).FGA.v + SumOfPercentages(Tail(window))
MeanOfPercentages(window) == SumOfPercentages(window) \div Len(window)

\* A log of more than 10 games whose window has games of 20/50 and one of
\* 70/100: the percentage is 250/550, while the per-game percentages
\* average to 0.430.
C23_Witness ==
    /\ Calculated
    /\ live.game_log_df # None
    /\ Len(live.game_log_df.games) > NBA_API_ROLLING_WINDOW
    /\ live.out.FGM_Roll10 = Num(250)
    /\ live.out.FGA_Roll10 = Num(550)
    /\ live.out.FG_PCT_Roll10 = Num(454)
    /\ MeanOfPercentages(StatWindow(live.game_log_df.games, NBA_API_ROLLING_WINDOW)) = 430

\* C24: whatever the log, the mapping returned has the 18 keys of
\* expected_output_base_keys and no other; for an absent or empty log every
\* value is NaN.
C24_SameEighteenKeys ==
    Calculated
    => /\ DOMAIN live.out = Range(expected_output_base_keys)
       /\ Cardinality(DOMAIN live.out) = 18
       /\ (live.game_log_df = None \/ live.game_log_df.games = << >>)
            => \A key \in DOMAIN live.out : live.out[key] = NaN

\* A log with games and columns: the means, the sums and the percentages
\* were written, and the keys are the same 18.
C24_Witness ==
    /\ Calculated
    /\ live.game_log_df # None
    /\ Len(live.game_log_df.games) = MaxGames
    /\ \A key \in DOMAIN live.out : live.out[key] # NaN
    /\ Cardinality(DOMAIN live.out) = 18

\* C25 as claimed: between any two upstream game-log requests of a wrapper
\* call there is a delay, whether the earlier request succeeded or raised.
C25_DelayBetweenRequests ==
    Wrapped
    => \A i \in DOMAIN live.events, j \in DOMAIN live.events :
         i < j /\ live.events[i] = "request" /\ live.events[j] = "request"
         => \E k \in (i + 1)..(j - 1) : live.events[k] = "sleep"

\* The stats the wrapper computed for a team, from the log it fetched
StatsOf(team_id, upstream) ==
    CalculateLiveRollingStatsForLog(GetLastNGamesForTeam(NBA_API_AVAILABLE, team_id, upstream))
SomeUnknown(stats) == \E key \in DOMAIN stats : stats[key] = NaN

\* C28 as claimed: with the models ready and the NBA API there (as /machine
\* requires before it predicts), when a rolling stat of the home or of the
\* away team is NaN, the game is rendered as a prediction error and no
\* score pair is returned for it.
C28_UnknownStatIsAnError ==
    Wrapped /\ models_store.models_ready /\ NBA_API_AVAILABLE
      /\ live._h_id # None /\ live._a_id # None
      /\ (SomeUnknown(StatsOf(live._h_id, live.h_upstream))
            \/ SomeUnknown(StatsOf(live._a_id, live.a_upstream)))
    => /\ "error" \in DOMAIN live.out
       /\ live.line = "Pred Error"

\* C28: with the models ready and the NBA API there, when every rolling stat
\* of the home or of the away team is NaN, the game is rendered as a
\* prediction error and no score pair is returned for it.
C28_AllUnknownStatsAreAnError ==
    Wrapped /\ models_store.models_ready /\ NBA_API_AVAILABLE
      /\ live._h_id # None /\ live._a_id # None
      /\ (\/ \A key \in StatKeys : StatsOf(live._h_id, live.h_upstream)[key] = NaN
          \/ \A key \in StatKeys : StatsOf(live._a_id, live.a_upstream)[key] = NaN)
    => /\ "error" \in DOMAIN live.out
       /\ live.line = "Pred Error"

\* Both logs were fetched, the home log lacks stat columns: every home stat
\* is NaN and the game is reported with the all-NaN error.
C28_Witness ==
    /\ Wrapped
    /\ models_store.models_ready /\ NBA_API_AVAILABLE
    /\ live._h_id # None /\ live._a_id # None
    /\ ~live.h_upstream.raises /\ ~live.a_upstream.raises
    /\ live.h_upstream.dates_ok /\ live.h_upstream.frame.games # << >>
    /\ ~live.h_upstream.frame.cols
    /\ ~CollectionFailed(live.a_upstream)
    /\ live.out = [error |-> "Team stats consist entirely of NaNs after calculation."]
    /\ live.line = "Pred Error"

\* ------------------------------------------- the setup's end (C26, C27)
\* The setup alone, with its coroutines and executor calls scheduled: a
\* step of a setup coroutine that can be taken is taken
NextSetup == \E t \in Triggers : SetupNext(t)
SpecSetup == Init /\ [][NextSetup]_vars /\ \A t \in Triggers : WF_vars(SetupNext(t))

\* C26: whichever way an invocation of perform_initial_model_setup ends
\* (CSV missing, load failure, training failing, success, or the early
\* return), it leaves initial_setup_complete true and does not hold the
\* lock; the flag is never taken back; and an invocation that has started
\* does end so.
C26_SetupEndsCompleteAndUnlocked ==
    /\ [][\A t \in Triggers :
            pcS[t] # "idle" /\ pcS'[t] = "idle"
            => initial_setup_complete' /\ t \notin lock']_vars
    /\ [][initial_setup_complete => initial_setup_complete']_vars
    /\ \A t \in Triggers : (pcS[t] = "lock") ~> (initial_setup_complete /\ t \notin lock)

\* The whole training failed (the split raised): the setup has ended with
\* the artifacts fitted, nothing trained, the flag set and the lock free.
C26_Witness ==
    /\ initial_setup_complete
    /\ lock = {}
    /\ runs = 1
    /\ models_store.imputer # None
    /\ models_store.trained_models = EmptyDict
    /\ ~models_store.models_ready
    /\ \A t \in Triggers : pcS[t] = "idle"

\* C27: training starts at most once in a cog; once the flag is set, an
\* invocation that gets the lock returns at once: it starts no load and no
\* training and leaves models_store as it is.
C27_TrainingRunsAtMostOnce ==
    /\ [](runs <= 1)
    /\ [][\A t \in Triggers :
            initial_setup_complete /\ pcS[t] = "lock" /\ pcS'[t] # "lock"
            => /\ pcS'[t] = "idle"
               /\ runs' = runs
               /\ models_store' = models_store
               /\ lock' = lock]_vars

\* The setup has trained and set the flag, and a further invocation is
\* waiting at the lock, which is free.
C27_Witness ==
    /\ initial_setup_complete
    /\ runs = 1
    /\ models_store.models_ready
    /\ lock = {}
    /\ \E t \in Triggers : pcS[t] = "lock"

\* ------------------------------------------------- odds (C29, C30)
\* C29 as claimed: however the /machine commands interleave, the count of
\* the day never exceeds MAX_ODDS_API_CREDITS_PER_DAY.
C29_CreditsNeverExceedLimit ==
    ODDS_API_CREDITS_USED_TODAY <= MAX_ODDS_API_CREDITS_PER_DAY

\* A step that is a call of get_nba_odds_data, and one in which command c
\* comes back from its request
IsCall == n_calls' = n_calls + 1
FetchEnds(c) == odds_call[c].pc \in { "get", "json" } /\ odds_call'[c].pc = "idle"

\* C30: a call made while the entry is younger than CACHE_DURATION_SECONDS
\* returns the cached games, sends no request and counts no credit; the
\* entry changes only when a request that was answered 2xx has given games;
\* a request that ends with None leaves the entry alone.
C30_CacheServesAndKeepsEntry ==
    /\ [][IsCall /\ ODDS_CACHE # None
            /\ clock.monotonic - ODDS_CACHE.cached_time < CACHE_DURATION_SECONDS
          => /\ odds_ret'.value = ODDS_CACHE.cached_data
             /\ odds_ret'.at = "cached"
             /\ odds_call' = odds_call
             /\ ODDS_API_CREDITS_USED_TODAY' = ODDS_API_CREDITS_USED_TODAY
             /\ ODDS_CACHE' = ODDS_CACHE]_vars
    /\ [][ODDS_CACHE' # ODDS_CACHE
          => \E c \in Commands :
               /\ odds_call[c].pc = "json" /\ FetchEnds(c)
               /\ odds_ret' = [by |-> c, value |-> ODDS_CACHE'.cached_data, at |-> "fetched"]
               /\ ODDS_CACHE'.cached_time = odds_call[c].current_time]_vars
    /\ [][\A c \in Commands :
            FetchEnds(c) /\ odds_ret'.value = None => ODDS_CACHE' = ODDS_CACHE]_vars

\* An entry fetched at 0 was served at 300 to the second call; one request
\* was counted and nobody is waiting for an answer.
C30_Witness ==
    /\ ODDS_CACHE # None
    /\ ODDS_CACHE.cached_time = 0
    /\ clock.monotonic = 300
    /\ odds_ret.by # 0
    /\ odds_ret.at = "cached"
    /\ odds_ret.value = ODDS_CACHE.cached_data
    /\ n_calls = 2
    /\ ODDS_API_CREDITS_USED_TODAY = 1
    /\ \A c \in Commands : odds_call[c].pc = "idle"

\* ------------------------------------------------- training rows (C22)
Loaded == live.call = "load"
Numeric(cell) == DOMAIN cell = {"v"}

\* C22 as claimed: every row returned has both targets present and numeric,
\* and the imputer is fitted on the rows of the file whose targets are
\* present and numeric, and on no other row.
C22_TargetsPresentAndNumeric ==
    Loaded /\ live.out # None
    => /\ \A i \in DOMAIN live.out.y_home :
             Numeric(live.out.y_home[i]) /\ Numeric(live.out.y_away[i])
       /\ LET good == SelectSeq(live.rows,
                          LAMBDA row : Numeric(row.home) /\ Numeric(row.away))
           IN  live.out.imputer =
                   FitImputer([i \in DOMAIN good |->
                                 IF Numeric(good[i].f) THEN good[i].f ELSE NaN])

====
